---- MODULE Spec2Model ----
(***************************************************************************)
(* A model of the chatbot web app of the portfolio repository              *)
(* (src/google-apps-script.gs): the per-user rate limiter checkRateLimit,   *)
(* the model/key fallback loop of doPost and the bounded retry primitive   *)
(* callGeminiWithRetry.                                                    *)
(*                                                                         *)
(* doPost is sequential code: rate limiting (lines 40-50), parsing          *)
(* (52-108), key lookup (110-128), dispatch (149-238) and the shaping of   *)
(* the response (240-298).  The cache is read and written by the first     *)
(* phase only, the generation API is called by the dispatch phase only, so *)
(* each phase is explored by a specification of its own:                   *)
(*   Spec          requests handled one at a time by checkRateLimit        *)
(*   SpecFault     the same, with the cache operations allowed to throw    *)
(*   SpecClock     the same, with the time to live of the entries          *)
(*   SpecRace      executions of checkRateLimit that interleave            *)
(*   SpecRetry     callGeminiWithRetry called with any maxRetries          *)
(*   SpecDispatch  the fallback loop of doPost, from the prompt to the     *)
(*                 response                                                *)
(*   SpecDoPost    doPost as a whole, with the counters close to a limit   *)
(*                 and at most one key                                     *)
(*   SpecCalls     SpecRetry and SpecDispatch together                     *)
(***************************************************************************)
EXTENDS Integers, Sequences, FiniteSets, TLC

\* A missing cache entry (cache.get returns null).
NULL == <<>>

(***************************************************************************)
(* Configuration (src/google-apps-script.gs lines 25-32).                  *)
(***************************************************************************)
ENABLE_RATE_LIMITING == TRUE
MAX_REQUESTS_PER_HOUR == 20
MAX_REQUESTS_PER_DAY == 100
WHITELISTED_IPS == {"172.16.255.61"}
ALLOW_LOCALHOST == TRUE

\* The expirationInSeconds of the two cache.put (lines 372-373).
HOUR_TTL == 3600
DAY_TTL == 86400

\* Lines 8-9 and 18-23, and the third argument of the call at line 199.
PRIMARY_MODEL == "gemini-2.0-flash-exp"
FALLBACK_MODEL == "gemini-1.5-flash-latest"
API_KEYS == <<"GEMINI_API_KEY", "GEMINI_API_KEY_2", "GEMINI_API_KEY_3">>
RETRIES_PER_KEY == 1

(***************************************************************************)
(* Bounds of the model.                                                    *)
(***************************************************************************)
\* Counted requests explored for a fingerprint other than HeavyFingerprint
\* while its daily counter lives.
MaxOtherRequests == 1
\* SpecFault explores a fingerprint's requests while both of its counters
\* are below this.
MaxFaultCount == 2
\* The largest maxRetries SpecRetry calls callGeminiWithRetry with.
MaxRetries == 3
\* The executions of checkRateLimit that SpecRace starts.
MaxRaceRuns == 6
\* SpecClock explores a fingerprint's requests while its daily count is
\* below this, and an entry while its age in seconds is at most MaxAge.
MaxClockRequests == 3
MaxAge == 90000
\* SpecInvoke explores the requests of a fingerprint during which an
\* operation of the cache throws while fewer than this many of its requests
\* are half counted.
MaxPutFaults == 1

(***************************************************************************)
(* The fields of e.parameter that checkRateLimit reads.  A missing field   *)
(* (undefined) is the empty string: both are falsy for ||.                 *)
(***************************************************************************)
UserIPs == {"", "172.16.255.61"}
Referrers == {"https://thesuxarick.github.io/portfolio/",
              "http://localhost:5500/index.html",
              "http://127.0.0.1:5500/index.html"}
UserIds == {"", "u1"}
DeviceIds == {"", "u1"}
UserAgents == {"Mozilla/5.0"}
Languages == {"", "en", "ru"}

Events == [userIP : UserIPs, referrer : Referrers, userId : UserIds,
           deviceId : DeviceIds, userAgent : UserAgents, language : Languages]

\* JavaScript's a || b on strings.
Or(a, b) == IF a # "" THEN a ELSE b

\* referrer.includes(needle), for the referrers of Referrers.
Includes(s, needle) ==
    CASE needle = "localhost" -> s = "http://localhost:5500/index.html"
      [] needle = "127.0.0.1" -> s = "http://127.0.0.1:5500/index.html"
      [] OTHER -> FALSE

\* The MD5 digest of userId + userAgent in hexadecimal.  The digest is taken
\* as collision free and the identifiers of the model concatenate to
\* different strings, so the digest is identified with the pair.
userFingerprint(userId, userAgent) == <<userId, userAgent>>

FingerprintOf(e) ==
    userFingerprint(Or(Or(e.userId, e.deviceId), "anonymous"), Or(e.userAgent, ""))

Fingerprints == {FingerprintOf(e) : e \in Events}

HeavyFingerprint == userFingerprint("u1", "Mozilla/5.0")

hourKey(fp) == <<"rate_hour_", fp>>
dayKey(fp) == <<"rate_day_", fp>>
CacheKeys == {hourKey(fp) : fp \in Fingerprints} \cup {dayKey(fp) : fp \in Fingerprints}

\* JSON.stringify({count, timestamp}) and JSON.parse(data).count.  The
\* timestamp is written and never read.
Stringify(count) == <<"count", count>>
ParseCount(data) == data[2]

\* The count a cache entry holds, 0 for a missing entry.
CountOf(c, key) == IF c[key] = NULL THEN 0 ELSE ParseCount(c[key])

\* Mutant of TimeToLive: the two expiration times are exchanged.
TimeToLive_Exchanged(key) == IF key[1] = "rate_hour_" THEN DAY_TTL ELSE HOUR_TTL

\* The expirationInSeconds an entry is put with.
TimeToLive(key) == IF key[1] = "rate_hour_" THEN HOUR_TTL ELSE DAY_TTL

(***************************************************************************)
(* State.                                                                  *)
(***************************************************************************)
VARIABLES
    cache,          \* CacheService.getScriptCache(): key -> entry or NULL
    pc,             \* doPost: "idle", "parse" (rate limit passed), "done"
    req,            \* of the request in hand: userIP, referrer, fingerprint
    loc,            \* the locals of the last checkRateLimit
    rl,             \* rateLimitCheck, the value checkRateLimit returned
    thrown,         \* the operation that threw inside checkRateLimit, or "none"
    response,       \* what doPost returned at lines 45-48, or NoResponse
    windowAllowed,  \* per fingerprint: requests counted since its hourly entry was created
    dayAllowed,     \* per fingerprint: requests counted since its daily entry was created
    ttl,            \* per key: the seconds its entry has left to live, 0 for no entry
    age             \* per key: the seconds since its entry was created, 0 for no entry

rateVars == <<cache, pc, req, loc, rl, thrown, response, windowAllowed, dayAllowed,
              ttl, age>>

VARIABLES
    ppc,            \* per execution of SpecRace: "idle", "getDay", "putHour", "putDay"
    plocal,         \* per execution: the hourCount and dayCount it read
    runs            \* the executions SpecRace has started

raceVars == <<ppc, plocal, runs>>

VARIABLES
    cpc,            \* callGeminiWithRetry: "idle", "loop", "returned", "threw"
    apiUrl,         \* the model and key of the call in progress
    maxRetries,     \* its third argument
    retry,          \* its loop variable
    cgLastError,    \* its lastError
    cgResult,       \* the response it returned or the error it threw
    log,            \* every UrlFetchApp.fetch of the request, in order
    gap             \* the Utilities.sleep durations since the last fetch

retryVars == <<cpc, apiUrl, maxRetries, retry, cgLastError, cgResult, log, gap>>

VARIABLES
    dpc,            \* doPost's dispatch: "idle", "outer", "inner", "call", "after", "done"
    language,       \* doPost's language
    nKeys,          \* availableApiKeys.length
    modelAttempt,   \* the loop variables and flags of lines 151-158
    keyAttempt,
    success,
    hit429,
    lastError,
    apiResponse,    \* doPost's response (the API's), or NoFetch
    reply           \* the object doPost returns, or NoReply

dispatchVars == <<dpc, language, nKeys, modelAttempt, keyAttempt, success, hit429,
                  lastError, apiResponse, reply>>

VARIABLES
    post,           \* the fields of the request that lines 57-108 have parsed, or NoPost
    userQuestion,   \* doPost's userQuestion
    history,        \* doPost's history
    prompt          \* doPost's prompt, or NoPrompt

parseVars == <<post, userQuestion, history, prompt>>

VARIABLES
    chatbotSend,          \* the send button of the chat client: [disabled]
    chatbotLoading,       \* the loading indicator: [display]
    conversationHistory,  \* chatbot.js line 9
    currentLang,          \* chatbot.js line 6
    chain,                \* the requests sent and not yet handled to the end
    sent,                 \* how many requests sendMessage has sent
    lastChild             \* what addMessage appended last to chatbotMessages

clientVars == <<chatbotSend, chatbotLoading, conversationHistory, currentLang, chain,
                sent, lastChild>>

vars == <<rateVars, raceVars, retryVars, dispatchVars, parseVars, clientVars>>

NoMessage == [text |-> "none", locale |-> "", max |-> 0]
NoResponse == [success |-> TRUE, error |-> NoMessage]
NoRequest == [userIP |-> "", referrer |-> "", fp |-> <<>>]
NoLocals == [userIP |-> "", referrer |-> "", fp |-> <<>>, hourCount |-> 0,
             dayCount |-> 0, lang |-> ""]
NoResult == [allowed |-> TRUE, message |-> NoMessage, whitelisted |-> FALSE,
             devMode |-> FALSE]

\* The texts of lines 355-357 and 365-367: which limit, in which language,
\* naming which maximum.
LocaleOf(lang) == IF lang = "en" THEN "en" ELSE "ru"
HourlyMessage(lang) ==
    [text |-> "hourly", locale |-> LocaleOf(lang), max |-> MAX_REQUESTS_PER_HOUR]
DailyMessage(lang) ==
    [text |-> "daily", locale |-> LocaleOf(lang), max |-> MAX_REQUESTS_PER_DAY]

\* Mutants of the bypass rules: the whitelist never matches; only the host
\* name, not the loopback address, is looked for.
IsWhitelisted_Never(userIP) == FALSE
IsLocalhost_NameOnly(referrer) == ALLOW_LOCALHOST /\ Includes(referrer, "localhost")

\* Lines 306 and 313: the two bypass rules.
IsWhitelisted(userIP) == userIP \in WHITELISTED_IPS
IsLocalhost(referrer) ==
    ALLOW_LOCALHOST /\ (Includes(referrer, "localhost") \/ Includes(referrer, "127.0.0.1"))

\* Mutants of the two limits: > for >=; no hourly limit.
HourLimitReached_OffByOne(hourCount) == hourCount > MAX_REQUESTS_PER_HOUR
HourLimitReached_Never(hourCount) == FALSE
DayLimitReached_OffByOne(dayCount) == dayCount > MAX_REQUESTS_PER_DAY

\* Lines 351 and 361: the two limits.
HourLimitReached(hourCount) == hourCount >= MAX_REQUESTS_PER_HOUR
DayLimitReached(dayCount) == dayCount >= MAX_REQUESTS_PER_DAY

\* The operations of checkRateLimit that can throw, in program order.
FaultPoints == {"computeDigest", "getScriptCache", "getHour", "getDay",
                "parseHour", "parseDay", "putHour", "putDay"}

\* Mutant of the catch block: it fails closed.
FailOpen_Closed == [allowed |-> FALSE, message |-> NoMessage, whitelisted |-> FALSE,
                    devMode |-> FALSE]

\* Line 380: what the catch block returns.
FailOpen == [allowed |-> TRUE, message |-> NoMessage, whitelisted |-> FALSE,
             devMode |-> FALSE]

\* Mutant of checkRateLimit: a request within the limits is let through
\* without being counted.
checkRateLimit_CountsNothing(e, c, fault) ==
    LET userIP == Or(e.userIP, "")
        referrer == Or(e.referrer, "")
        fp == FingerprintOf(e)
        hourData == c[hourKey(fp)]
        dayData == c[dayKey(fp)]
        hourCount == IF hourData # NULL THEN ParseCount(hourData) ELSE 0
        dayCount == IF dayData # NULL THEN ParseCount(dayData) ELSE 0
        lang == Or(e.language, "en")
        afterHour == [c EXCEPT ![hourKey(fp)] = Stringify(hourCount + 1)]
        afterDay == [afterHour EXCEPT ![dayKey(fp)] = Stringify(dayCount + 1)]
        l0 == [NoLocals EXCEPT !.userIP = userIP]
        l1 == [l0 EXCEPT !.referrer = referrer]
        l2 == [l1 EXCEPT !.fp = fp]
        l3 == [l2 EXCEPT !.hourCount = hourCount, !.dayCount = dayCount]
        l4 == [l3 EXCEPT !.lang = lang]
        Ret(r, cc, l, t, counted) ==
            [rl |-> r, cache |-> cc, loc |-> l, thrown |-> t, counted |-> counted]
        Caught(cc, l) == Ret(FailOpen, cc, l, fault, FALSE)
    IN  IF IsWhitelisted(userIP)
            THEN Ret([NoResult EXCEPT !.whitelisted = TRUE], c, l0, "none", FALSE)
        ELSE IF IsLocalhost(referrer)
            THEN Ret([NoResult EXCEPT !.devMode = TRUE], c, l1, "none", FALSE)
        ELSE IF fault \in {"computeDigest"}
            THEN Caught(c, l1)
        ELSE IF fault \in {"getScriptCache", "getHour", "getDay"}
            THEN Caught(c, l2)
        ELSE IF fault = "parseHour" /\ hourData # NULL
            THEN Caught(c, l2)
        ELSE IF fault = "parseDay" /\ dayData # NULL
            THEN Caught(c, [l2 EXCEPT !.hourCount = hourCount])
        ELSE IF HourLimitReached(hourCount)
            THEN Ret([NoResult EXCEPT !.allowed = FALSE, !.message = HourlyMessage(lang)],
                     c, l4, "none", FALSE)
        ELSE IF DayLimitReached(dayCount)
            THEN Ret([NoResult EXCEPT !.allowed = FALSE, !.message = DailyMessage(lang)],
                     c, l4, "none", FALSE)
        ELSE IF fault = "putHour"
            THEN Caught(c, l3)
        ELSE IF fault = "putDay"
            THEN Caught(afterHour, l3)
        ELSE Ret(NoResult, c, l3, "none", FALSE)

\* Mutant of checkRateLimit: the localhost rule is tested before the
\* whitelist.
checkRateLimit_LocalhostFirst(e, c, fault) ==
    LET userIP == Or(e.userIP, "")
        referrer == Or(e.referrer, "")
        fp == FingerprintOf(e)
        hourData == c[hourKey(fp)]
        dayData == c[dayKey(fp)]
        hourCount == IF hourData # NULL THEN ParseCount(hourData) ELSE 0
        dayCount == IF dayData # NULL THEN ParseCount(dayData) ELSE 0
        lang == Or(e.language, "en")
        afterHour == [c EXCEPT ![hourKey(fp)] = Stringify(hourCount + 1)]
        afterDay == [afterHour EXCEPT ![dayKey(fp)] = Stringify(dayCount + 1)]
        l0 == [NoLocals EXCEPT !.userIP = userIP]
        l1 == [l0 EXCEPT !.referrer = referrer]
        l2 == [l1 EXCEPT !.fp = fp]
        l3 == [l2 EXCEPT !.hourCount = hourCount, !.dayCount = dayCount]
        l4 == [l3 EXCEPT !.lang = lang]
        Ret(r, cc, l, t, counted) ==
            [rl |-> r, cache |-> cc, loc |-> l, thrown |-> t, counted |-> counted]
        Caught(cc, l) == Ret(FailOpen, cc, l, fault, FALSE)
    IN  IF IsLocalhost(referrer)
            THEN Ret([NoResult EXCEPT !.devMode = TRUE], c, l1, "none", FALSE)
        ELSE IF IsWhitelisted(userIP)
            THEN Ret([NoResult EXCEPT !.whitelisted = TRUE], c, l1, "none", FALSE)
        ELSE IF fault \in {"computeDigest"}
            THEN Caught(c, l1)
        ELSE IF fault \in {"getScriptCache", "getHour", "getDay"}
            THEN Caught(c, l2)
        ELSE IF fault = "parseHour" /\ hourData # NULL
            THEN Caught(c, l2)
        ELSE IF fault = "parseDay" /\ dayData # NULL
            THEN Caught(c, [l2 EXCEPT !.hourCount = hourCount])
        ELSE IF HourLimitReached(hourCount)
            THEN Ret([NoResult EXCEPT !.allowed = FALSE, !.message = HourlyMessage(lang)],
                     c, l4, "none", FALSE)
        ELSE IF DayLimitReached(dayCount)
            THEN Ret([NoResult EXCEPT !.allowed = FALSE, !.message = DailyMessage(lang)],
                     c, l4, "none", FALSE)
        ELSE IF fault = "putHour"
            THEN Caught(c, l3)
        ELSE IF fault = "putDay"
            THEN Caught(afterHour, l3)
        ELSE Ret(NoResult, afterDay, l3, "none", TRUE)

\* Mutant of checkRateLimit: the two counts are put before the limits are
\* tested, so a denied request is counted too.
checkRateLimit_PutsFirst(e, c, fault) ==
    LET userIP == Or(e.userIP, "")
        referrer == Or(e.referrer, "")
        fp == FingerprintOf(e)
        hourCount == CountOf(c, hourKey(fp))
        dayCount == CountOf(c, dayKey(fp))
        lang == Or(e.language, "en")
        after == [c EXCEPT ![hourKey(fp)] = Stringify(hourCount + 1),
                           ![dayKey(fp)] = Stringify(dayCount + 1)]
        locals == [NoLocals EXCEPT !.userIP = userIP, !.referrer = referrer, !.fp = fp,
                                   !.hourCount = hourCount, !.dayCount = dayCount]
        Ret(r, cc, l, counted) ==
            [rl |-> r, cache |-> cc, loc |-> l, thrown |-> "none", counted |-> counted]
    IN  IF IsWhitelisted(userIP)
            THEN Ret([NoResult EXCEPT !.whitelisted = TRUE], c,
                     [NoLocals EXCEPT !.userIP = userIP], FALSE)
        ELSE IF IsLocalhost(referrer)
            THEN Ret([NoResult EXCEPT !.devMode = TRUE], c,
                     [NoLocals EXCEPT !.userIP = userIP, !.referrer = referrer], FALSE)
        ELSE IF HourLimitReached(hourCount)
            THEN Ret([NoResult EXCEPT !.allowed = FALSE, !.message = HourlyMessage(lang)],
                     after, [locals EXCEPT !.lang = lang], FALSE)
        ELSE IF DayLimitReached(dayCount)
            THEN Ret([NoResult EXCEPT !.allowed = FALSE, !.message = DailyMessage(lang)],
                     after, [locals EXCEPT !.lang = lang], FALSE)
        ELSE Ret(NoResult, after, locals, TRUE)

(***************************************************************************)
(* checkRateLimit(e), lines 302-382, run without interleaving on cache c.  *)
(* fault names the operation that throws when execution reaches it         *)
(* ("none": nothing throws).  The value is the result returned, the cache  *)
(* afterwards, the locals, the operation that threw and whether the        *)
(* request was counted.                                                    *)
(***************************************************************************)
checkRateLimit(e, c, fault) ==
    LET userIP == Or(e.userIP, "")
        referrer == Or(e.referrer, "")
        fp == FingerprintOf(e)
        hourData == c[hourKey(fp)]
        dayData == c[dayKey(fp)]
        hourCount == IF hourData # NULL THEN ParseCount(hourData) ELSE 0
        dayCount == IF dayData # NULL THEN ParseCount(dayData) ELSE 0
        lang == Or(e.language, "en")
        afterHour == [c EXCEPT ![hourKey(fp)] = Stringify(hourCount + 1)]
        afterDay == [afterHour EXCEPT ![dayKey(fp)] = Stringify(dayCount + 1)]
        l0 == [NoLocals EXCEPT !.userIP = userIP]
        l1 == [l0 EXCEPT !.referrer = referrer]
        l2 == [l1 EXCEPT !.fp = fp]
        l3 == [l2 EXCEPT !.hourCount = hourCount, !.dayCount = dayCount]
        l4 == [l3 EXCEPT !.lang = lang]
        Ret(r, cc, l, t, counted) ==
            [rl |-> r, cache |-> cc, loc |-> l, thrown |-> t, counted |-> counted]
        Caught(cc, l) == Ret(FailOpen, cc, l, fault, FALSE)
    IN  IF IsWhitelisted(userIP)
            THEN Ret([NoResult EXCEPT !.whitelisted = TRUE], c, l0, "none", FALSE)
        ELSE IF IsLocalhost(referrer)
            THEN Ret([NoResult EXCEPT !.devMode = TRUE], c, l1, "none", FALSE)
        ELSE IF fault \in {"computeDigest"}
            THEN Caught(c, l1)
        ELSE IF fault \in {"getScriptCache", "getHour", "getDay"}
            THEN Caught(c, l2)
        ELSE IF fault = "parseHour" /\ hourData # NULL
            THEN Caught(c, l2)
        ELSE IF fault = "parseDay" /\ dayData # NULL
            THEN Caught(c, [l2 EXCEPT !.hourCount = hourCount])
        ELSE IF HourLimitReached(hourCount)
            THEN Ret([NoResult EXCEPT !.allowed = FALSE, !.message = HourlyMessage(lang)],
                     c, l4, "none", FALSE)
        ELSE IF DayLimitReached(dayCount)
            THEN Ret([NoResult EXCEPT !.allowed = FALSE, !.message = DailyMessage(lang)],
                     c, l4, "none", FALSE)
        ELSE IF fault = "putHour"
            THEN Caught(c, l3)
        ELSE IF fault = "putDay"
            THEN Caught(afterHour, l3)
        ELSE Ret(NoResult, afterDay, l3, "none", TRUE)

(***************************************************************************)
(* Requests handled one at a time: doPost lines 40-50 and checkRateLimit.  *)
(***************************************************************************)
RateInit ==
    /\ cache = [k \in CacheKeys |-> NULL]
    /\ pc = "idle"
    /\ req = NoRequest
    /\ loc = NoLocals
    /\ rl = NoResult
    /\ thrown = "none"
    /\ response = NoResponse
    /\ windowAllowed = [fp \in Fingerprints |-> 0]
    /\ dayAllowed = [fp \in Fingerprints |-> 0]
    /\ ttl = [k \in CacheKeys |-> 0]
    /\ age = [k \in CacheKeys |-> 0]

Bypassed(e) == IsWhitelisted(Or(e.userIP, "")) \/ IsLocalhost(Or(e.referrer, ""))

\* The requests the model explores in the current state.
WithinBudget(e) ==
    \/ FingerprintOf(e) = HeavyFingerprint
    \/ Bypassed(e)
    \/ CountOf(cache, dayKey(FingerprintOf(e))) < MaxOtherRequests

\* The requests SpecFault explores in the current state.
WithinFaultBudget(e) ==
    /\ CountOf(cache, hourKey(FingerprintOf(e))) < MaxFaultCount
    /\ CountOf(cache, dayKey(FingerprintOf(e))) < MaxFaultCount

\* The keys checkRateLimit has put: both when the request was counted, the
\* hourly one alone when the second put threw.  A put restarts the time to
\* live of its entry.
PutKeys(fp, counted, t) ==
    IF counted THEN {hourKey(fp), dayKey(fp)}
    ELSE IF t = "putDay" THEN {hourKey(fp)}
    ELSE {}

\* doPost, lines 40-50: the rate limit check and the denial response, as
\* far as the limiter and the response go.
doPostLimit(e, fault) ==
    /\ pc = "idle"
    /\ req' = [userIP |-> e.userIP, referrer |-> e.referrer, fp |-> FingerprintOf(e)]
    /\ IF ENABLE_RATE_LIMITING
         THEN LET r == checkRateLimit(e, cache, fault)
                  fp == FingerprintOf(e)
              IN  /\ cache' = r.cache
                  /\ loc' = r.loc
                  /\ rl' = r.rl
                  /\ thrown' = r.thrown
                  /\ windowAllowed' = IF r.counted
                                         THEN [windowAllowed EXCEPT ![fp] = @ + 1]
                                         ELSE windowAllowed
                  /\ dayAllowed' = IF r.counted
                                      THEN [dayAllowed EXCEPT ![fp] = @ + 1]
                                      ELSE dayAllowed
                  /\ ttl' = [k \in CacheKeys |->
                                IF k \in PutKeys(fp, r.counted, r.thrown)
                                    THEN TimeToLive(k) ELSE ttl[k]]
                  /\ IF ~r.rl.allowed
                       THEN /\ pc' = "done"
                            /\ response' = [success |-> FALSE, error |-> r.rl.message]
                       ELSE /\ pc' = "parse"
                            /\ response' = NoResponse
         ELSE /\ pc' = "parse"
              /\ UNCHANGED <<cache, loc, rl, thrown, response, windowAllowed, dayAllowed,
                              ttl>>
    /\ UNCHANGED age
    /\ UNCHANGED <<raceVars, retryVars, dispatchVars>>
    /\ UNCHANGED clientVars

\* doPost, lines 40-50; nothing of the request is parsed yet.
doPostCheck(e, fault) == doPostLimit(e, fault) /\ UNCHANGED parseVars

\* One request handled with the cache working; one handled with the
\* operation `fault` throwing if it is reached.
HandleRequest(e) == pc = "idle" /\ WithinBudget(e) /\ doPostCheck(e, "none")
HandleRequestWithFault(e, fault) ==
    pc = "idle" /\ WithinFaultBudget(e) /\ doPostCheck(e, fault)

\* The rest of doPost (lines 52-298), which touches no cache entry, or the
\* return of the denial; the next request finds the handler idle.
doPostFinish ==
    /\ pc \in {"parse", "done"}
    /\ pc' = "idle"
    /\ req' = NoRequest
    /\ loc' = NoLocals
    /\ rl' = NoResult
    /\ thrown' = "none"
    /\ response' = NoResponse
    /\ UNCHANGED <<cache, windowAllowed, dayAllowed, ttl, age>>
    /\ UNCHANGED <<raceVars, retryVars, dispatchVars>>
    /\ UNCHANGED parseVars
    /\ UNCHANGED clientVars

\* The hourly entry of fp outlives its time to live of 3600 s (line 372).
ExpireHour(fp) ==
    /\ pc = "idle"
    /\ cache[hourKey(fp)] # NULL
    /\ cache' = [cache EXCEPT ![hourKey(fp)] = NULL]
    /\ ttl' = [ttl EXCEPT ![hourKey(fp)] = 0]
    /\ age' = [age EXCEPT ![hourKey(fp)] = 0]
    /\ windowAllowed' = [windowAllowed EXCEPT ![fp] = 0]
    /\ UNCHANGED <<pc, req, loc, rl, thrown, response, dayAllowed>>
    /\ UNCHANGED <<raceVars, retryVars, dispatchVars>>
    /\ UNCHANGED parseVars
    /\ UNCHANGED clientVars

\* The daily entry of fp outlives its time to live of 86400 s (line 373);
\* both entries are put together, so the hourly one is gone by then.
ExpireDay(fp) ==
    /\ pc = "idle"
    /\ cache[dayKey(fp)] # NULL
    /\ cache[hourKey(fp)] = NULL
    /\ cache' = [cache EXCEPT ![dayKey(fp)] = NULL]
    /\ ttl' = [ttl EXCEPT ![dayKey(fp)] = 0]
    /\ age' = [age EXCEPT ![dayKey(fp)] = 0]
    /\ dayAllowed' = [dayAllowed EXCEPT ![fp] = 0]
    /\ UNCHANGED <<pc, req, loc, rl, thrown, response, windowAllowed>>
    /\ UNCHANGED <<raceVars, retryVars, dispatchVars>>
    /\ UNCHANGED parseVars
    /\ UNCHANGED clientVars

(***************************************************************************)
(* Requests handled one at a time while time passes.  The cache drops an   *)
(* entry when the time to live given to its last put has run out.          *)
(***************************************************************************)
\* The lengths of time, in seconds, that pass between two requests.
Ticks == {1800, 43200}

\* The requests SpecClock explores in the current state.
WithinClockBudget(e) ==
    /\ FingerprintOf(e) = HeavyFingerprint
    /\ ~Bypassed(e)
    /\ CountOf(cache, dayKey(FingerprintOf(e))) < MaxClockRequests

TimedRequest(e) == pc = "idle" /\ WithinClockBudget(e) /\ doPostCheck(e, "none")

\* The entry under k is dropped when d more seconds have passed.
Expires(k, d) == cache[k] # NULL /\ ttl[k] <= d

\* d seconds pass with no request in hand.
Advance(d) ==
    /\ pc = "idle"
    /\ \E k \in CacheKeys : cache[k] # NULL
    /\ \A k \in CacheKeys : (cache[k] # NULL /\ ~Expires(k, d)) => age[k] + d <= MaxAge
    /\ cache' = [k \in CacheKeys |-> IF Expires(k, d) THEN NULL ELSE cache[k]]
    /\ ttl' = [k \in CacheKeys |->
                  IF cache[k] = NULL \/ Expires(k, d) THEN 0 ELSE ttl[k] - d]
    /\ age' = [k \in CacheKeys |->
                  IF cache[k] = NULL \/ Expires(k, d) THEN 0 ELSE age[k] + d]
    /\ windowAllowed' = [fp \in Fingerprints |->
                            IF Expires(hourKey(fp), d) THEN 0 ELSE windowAllowed[fp]]
    /\ dayAllowed' = [fp \in Fingerprints |->
                         IF Expires(dayKey(fp), d) THEN 0 ELSE dayAllowed[fp]]
    /\ UNCHANGED <<pc, req, loc, rl, thrown, response>>
    /\ UNCHANGED <<raceVars, retryVars, dispatchVars>>
    /\ UNCHANGED parseVars
    /\ UNCHANGED clientVars

\* The requests SpecDenial explores in the current state: those of
\* SpecClock and those that find a limit reached.
WithinDenialBudget(e) ==
    /\ FingerprintOf(e) = HeavyFingerprint
    /\ ~Bypassed(e)
    /\ \/ WithinClockBudget(e)
       \/ HourLimitReached(CountOf(cache, hourKey(FingerprintOf(e))))
       \/ DayLimitReached(CountOf(cache, dayKey(FingerprintOf(e))))

RequestAtLimit(e) == pc = "idle" /\ WithinDenialBudget(e) /\ doPostCheck(e, "none")

(***************************************************************************)
(* Executions of checkRateLimit that interleave (one script execution per  *)
(* request): all under RaceFingerprint, none bypassed, inside one hourly   *)
(* window.  Every cache.get and every cache.put of an execution is a step  *)
(* of its own; the other executions run in between.  The executions find   *)
(* the counters as earlier requests, handled one after another, left them. *)
(***************************************************************************)
Procs == {"x1", "x2"}
RaceFingerprint == HeavyFingerprint
NoCounts == [hourCount |-> 0, dayCount |-> 0]

\* The hourly and daily counts the executions find: none, or close to
\* either limit.
PriorCounts ==
    {<<0, 0>>,
     <<0, MAX_REQUESTS_PER_DAY - 2>>,
     <<MAX_REQUESTS_PER_HOUR - 2, MAX_REQUESTS_PER_HOUR - 2>>,
     <<MAX_REQUESTS_PER_HOUR - 2, MAX_REQUESTS_PER_DAY - 2>>}

\* The entry put for count n, none for 0, and its time to live.
PriorEntry(n) == IF n = 0 THEN NULL ELSE Stringify(n)
PriorTTL(k, n) == IF n = 0 THEN 0 ELSE TimeToLive(k)

RaceInit ==
    /\ ppc = [p \in Procs |-> "idle"]
    /\ plocal = [p \in Procs |-> NoCounts]
    /\ runs = 0

\* The rate limiter after prior[1] requests counted in the hourly window
\* and prior[2] in the day.
PriorInit(prior) ==
        /\ cache = [k \in CacheKeys |->
                        IF k = hourKey(RaceFingerprint) THEN PriorEntry(prior[1])
                        ELSE IF k = dayKey(RaceFingerprint) THEN PriorEntry(prior[2])
                        ELSE NULL]
        /\ ttl = [k \in CacheKeys |->
                        IF k = hourKey(RaceFingerprint) THEN PriorTTL(k, prior[1])
                        ELSE IF k = dayKey(RaceFingerprint) THEN PriorTTL(k, prior[2])
                        ELSE 0]
        /\ windowAllowed = [fp \in Fingerprints |->
                                IF fp = RaceFingerprint THEN prior[1] ELSE 0]
        /\ dayAllowed = [fp \in Fingerprints |->
                             IF fp = RaceFingerprint THEN prior[2] ELSE 0]
        /\ age = [k \in CacheKeys |-> 0]
        /\ pc = "idle"
        /\ req = NoRequest
        /\ loc = NoLocals
        /\ rl = NoResult
        /\ thrown = "none"
        /\ response = NoResponse

RacePriorInit == \E prior \in PriorCounts : PriorInit(prior)

\* Line 334 of execution p: cache.get(hourKey); lines 340-343.
RaceGetHour(p) ==
    /\ ppc[p] = "idle"
    /\ pc = "idle"
    /\ runs < MaxRaceRuns
    /\ runs' = runs + 1
    /\ LET hourData == cache[hourKey(RaceFingerprint)]
       IN  plocal' = [plocal EXCEPT ![p].hourCount =
                            IF hourData # NULL THEN ParseCount(hourData) ELSE 0]
    /\ ppc' = [ppc EXCEPT ![p] = "getDay"]
    /\ UNCHANGED <<rateVars, retryVars, dispatchVars>>
    /\ UNCHANGED parseVars
    /\ UNCHANGED clientVars

\* Line 335 of execution p: cache.get(dayKey); lines 345-369: the limits.
\* A denied execution returns.
RaceGetDay(p) ==
    /\ ppc[p] = "getDay"
    /\ LET dayData == cache[dayKey(RaceFingerprint)]
           dayCount == IF dayData # NULL THEN ParseCount(dayData) ELSE 0
       IN  IF HourLimitReached(plocal[p].hourCount) \/ DayLimitReached(dayCount)
              THEN /\ ppc' = [ppc EXCEPT ![p] = "idle"]
                   /\ plocal' = [plocal EXCEPT ![p] = NoCounts]
              ELSE /\ ppc' = [ppc EXCEPT ![p] = "putHour"]
                   /\ plocal' = [plocal EXCEPT ![p].dayCount = dayCount]
    /\ UNCHANGED runs
    /\ UNCHANGED <<rateVars, retryVars, dispatchVars>>
    /\ UNCHANGED parseVars
    /\ UNCHANGED clientVars

\* Line 372 of execution p: cache.put(hourKey, hourCount + 1, 3600).
RacePutHour(p) ==
    /\ ppc[p] = "putHour"
    /\ cache' = [cache EXCEPT
                    ![hourKey(RaceFingerprint)] = Stringify(plocal[p].hourCount + 1)]
    /\ ttl' = [ttl EXCEPT ![hourKey(RaceFingerprint)] = HOUR_TTL]
    /\ ppc' = [ppc EXCEPT ![p] = "putDay"]
    /\ UNCHANGED <<pc, req, loc, rl, thrown, response, windowAllowed, dayAllowed, age>>
    /\ UNCHANGED <<plocal, runs, retryVars, dispatchVars>>
    /\ UNCHANGED parseVars
    /\ UNCHANGED clientVars

\* Lines 373-375 of execution p: cache.put(dayKey, dayCount + 1, 86400) and
\* the return of allowed: true.
RacePutDay(p) ==
    /\ ppc[p] = "putDay"
    /\ cache' = [cache EXCEPT
                    ![dayKey(RaceFingerprint)] = Stringify(plocal[p].dayCount + 1)]
    /\ ttl' = [ttl EXCEPT ![dayKey(RaceFingerprint)] = DAY_TTL]
    /\ windowAllowed' = [windowAllowed EXCEPT ![RaceFingerprint] = @ + 1]
    /\ dayAllowed' = [dayAllowed EXCEPT ![RaceFingerprint] = @ + 1]
    /\ ppc' = [ppc EXCEPT ![p] = "idle"]
    /\ plocal' = [plocal EXCEPT ![p] = NoCounts]
    /\ UNCHANGED <<pc, req, loc, rl, thrown, response, age>>
    /\ UNCHANGED <<runs, retryVars, dispatchVars>>
    /\ UNCHANGED parseVars
    /\ UNCHANGED clientVars

(***************************************************************************)
(* Errors.  The code classifies an error by the substrings of its          *)
(* toString(), so an error is its message template (kind) together with    *)
(* the searched substrings (marks) that the message contains.              *)
(***************************************************************************)
NoError == [kind |-> "none", marks |-> {}]
\* Line 411: `Rate limit (429) - moving to next API key`
RateLimitError == [kind |-> "Rate limit (429)", marks |-> {"429", "Rate limit", "API key"}]
\* Line 421: `Service unavailable after ${maxRetries} retries. Status: 503`
ServiceUnavailableError == [kind |-> "Service unavailable", marks |-> {"503"}]
\* Line 427: `API error: ${statusCode}. ${errorText.substring(0, 200)}`
StatusMarks(status) ==
    IF status = 429 THEN {"429"} ELSE IF status = 503 THEN {"503"} ELSE {}
ApiError(status, bodyMarks) ==
    [kind |-> "API error", marks |-> StatusMarks(status) \cup bodyMarks]
\* Line 447: `Request timeout after ${maxRetries} retries`
RequestTimeoutError == [kind |-> "Request timeout", marks |-> {"timeout"}]
\* Line 456: 'Max retries exceeded'
MaxRetriesError == [kind |-> "Max retries exceeded", marks |-> {}]
\* An exception of UrlFetchApp.fetch itself, with the marks of its message.
FetchException(m) == [kind |-> "fetch exception", marks |-> m]
\* Line 235: 'RATE_LIMIT_EXCEEDED'
RateLimitExceeded == [kind |-> "RATE_LIMIT_EXCEEDED", marks |-> {"RATE_LIMIT_EXCEEDED"}]
\* Line 237: 'All models and API keys failed. Last error: ' + lastError
AllFailedError(last) ==
    [kind |-> "All models and API keys failed", marks |-> {"API key"} \cup last.marks]

\* error.toString().includes(needle)
ErrorIncludes(err, needle) == needle \in err.marks

(***************************************************************************)
(* What one UrlFetchApp.fetch can produce: a response (its status, the     *)
(* marks in the first 200 characters of its body, whether its body holds   *)
(* candidates[0].content, what reading its body throws), or an exception   *)
(* (status 0, the marks of its message).  The body of a 200 response is    *)
(* read at lines 241-249: JSON.parse throws a SyntaxError on a body that   *)
(* is not JSON, and a content without parts[0].text throws a TypeError at  *)
(* lines 248-249.                                                          *)
(***************************************************************************)
FetchOutcomes ==
    {[status |-> 200, marks |-> {}, candidates |-> TRUE, throws |-> t] :
              t \in {"none", "TypeError"}}
    \cup {[status |-> 200, marks |-> {}, candidates |-> FALSE, throws |-> t] :
              t \in {"none", "SyntaxError"}}
    \cup {[status |-> st, marks |-> {}, candidates |-> FALSE, throws |-> "none"] :
              st \in {429, 503}}
    \cup {[status |-> 500, marks |-> m, candidates |-> FALSE, throws |-> "none"] :
              m \in {{}, {"timeout"}, {"429"}}}
    \cup {[status |-> 0, marks |-> m, candidates |-> FALSE, throws |-> "none"] :
              m \in {{}, {"Timeout"}, {"429"}}}

NoUrl == <<>>
NoFetch == [status |-> -1, marks |-> {}, candidates |-> FALSE, throws |-> "none",
            from |-> NoUrl]
ResponseOf(o, url) ==
    [status |-> o.status, marks |-> o.marks, candidates |-> o.candidates,
     throws |-> o.throws, from |-> url]
\* The exception thrown while the body of response r is read.
BodyException(r) == [kind |-> r.throws, marks |-> r.marks]
NoCallResult == [response |-> NoFetch, error |-> NoError]

Min(a, b) == IF a < b THEN a ELSE b
RECURSIVE Pow2(_)
Pow2(n) == IF n <= 0 THEN 1 ELSE 2 * Pow2(n - 1)

\* Lines 414 and 440: Math.min(1000 * Math.pow(2, retry), 5000)
WaitTime(r) == Min(1000 * Pow2(r), 5000)

\* What one pass of the loop body ends in: "return", "continue" (after a
\* sleep of `sleep` ms) or "throw"; `caught` is the error the catch block
\* stored in lastError.
Pass(kind, err, sleep, caught) ==
    [kind |-> kind, error |-> err, sleep |-> sleep, caught |-> caught]

\* Mutant of the catch block: a timeout is thrown on like any other error.
CatchBlock_NoTimeoutRetry(err, r, n) == Pass("throw", err, 0, err)

\* Lines 429-453: the catch block, entered with err at loop index r.
CatchBlock(err, r, n) ==
    IF ErrorIncludes(err, "429") \/ ErrorIncludes(err, "Rate limit")
        THEN Pass("throw", err, 0, err)
    ELSE IF ErrorIncludes(err, "timeout") \/ ErrorIncludes(err, "Timeout")
        THEN IF r < n - 1
                THEN Pass("continue", NoError, WaitTime(r), err)
                ELSE Pass("throw", RequestTimeoutError, 0, err)
    ELSE Pass("throw", err, 0, err)

\* Mutants of the try block: a 429 is retried with backoff like a 503; a 503
\* at the last index is retried too.
TryBlock_Retries429(o, r, n) ==
    IF o.status = 0
        THEN Pass("throw", FetchException(o.marks), 0, NoError)
    ELSE IF o.status = 200
        THEN Pass("return", NoError, 0, NoError)
    ELSE IF o.status \in {429, 503}
        THEN IF r < n - 1
                THEN Pass("continue", NoError, WaitTime(r), NoError)
                ELSE Pass("throw", IF o.status = 429 THEN RateLimitError
                                                     ELSE ServiceUnavailableError,
                          0, NoError)
    ELSE Pass("throw", ApiError(o.status, o.marks), 0, NoError)
TryBlock_RetriesOnLast(o, r, n) ==
    IF o.status = 0
        THEN Pass("throw", FetchException(o.marks), 0, NoError)
    ELSE IF o.status = 200
        THEN Pass("return", NoError, 0, NoError)
    ELSE IF o.status = 429
        THEN Pass("throw", RateLimitError, 0, NoError)
    ELSE IF o.status = 503
        THEN IF r < n
                THEN Pass("continue", NoError, WaitTime(r), NoError)
                ELSE Pass("throw", ServiceUnavailableError, 0, NoError)
    ELSE Pass("throw", ApiError(o.status, o.marks), 0, NoError)

\* Lines 389-428: the try block at loop index r, the fetch producing o.
\* A "throw" goes to the catch block.
TryBlock(o, r, n) ==
    IF o.status = 0
        THEN Pass("throw", FetchException(o.marks), 0, NoError)
    ELSE IF o.status = 200
        THEN Pass("return", NoError, 0, NoError)
    ELSE IF o.status = 429
        THEN Pass("throw", RateLimitError, 0, NoError)
    ELSE IF o.status = 503
        THEN IF r < n - 1
                THEN Pass("continue", NoError, WaitTime(r), NoError)
                ELSE Pass("throw", ServiceUnavailableError, 0, NoError)
    ELSE Pass("throw", ApiError(o.status, o.marks), 0, NoError)

\* Lines 389-453: one pass of the loop body.
LoopBody(o, r, n) ==
    LET t == TryBlock(o, r, n)
    IN  IF t.kind = "throw" THEN CatchBlock(t.error, r, n) ELSE t

RetryInit ==
    /\ cpc = "idle"
    /\ apiUrl = NoUrl
    /\ maxRetries = 0
    /\ retry = 0
    /\ cgLastError = NoError
    /\ cgResult = NoCallResult
    /\ log = <<>>
    /\ gap = <<>>

\* callGeminiWithRetry, lines 385-457: one evaluation of the loop condition
\* and, when it holds, one pass of the body with the fetch producing o.
callGeminiStep(o) ==
    /\ cpc = "loop"
    /\ IF retry < maxRetries
         THEN LET it == LoopBody(o, retry, maxRetries)
              IN  /\ log' = Append(log, [url |-> apiUrl, retry |-> retry,
                                          status |-> o.status, slept |-> gap])
                  /\ gap' = IF it.kind = "continue" THEN <<it.sleep>> ELSE <<>>
                  /\ cgLastError' = IF it.caught # NoError THEN it.caught ELSE cgLastError
                  /\ retry' = IF it.kind = "continue" THEN retry + 1 ELSE retry
                  /\ cpc' = CASE it.kind = "return" -> "returned"
                               [] it.kind = "throw" -> "threw"
                               [] OTHER -> "loop"
                  /\ cgResult' = CASE it.kind = "return" ->
                                          [response |-> ResponseOf(o, apiUrl), error |-> NoError]
                                    [] it.kind = "throw" ->
                                          [response |-> NoFetch, error |-> it.error]
                                    [] OTHER -> cgResult
         ELSE /\ cpc' = "threw"
              /\ cgResult' = [response |-> NoFetch,
                               error |-> IF cgLastError # NoError THEN cgLastError
                                                                  ELSE MaxRetriesError]
              /\ UNCHANGED <<log, gap, cgLastError, retry>>
    /\ UNCHANGED <<apiUrl, maxRetries>>
    /\ UNCHANGED <<rateVars, raceVars, dispatchVars>>
    /\ UNCHANGED parseVars
    /\ UNCHANGED clientVars

\* A call callGeminiWithRetry(apiUrl, requestPayload, n) on its own.
RetryCall(n) ==
    /\ cpc = "idle"
    /\ dpc = "idle"
    /\ cpc' = "loop"
    /\ apiUrl' = <<PRIMARY_MODEL, 1>>
    /\ maxRetries' = n
    /\ retry' = 0
    /\ cgLastError' = NoError
    /\ cgResult' = NoCallResult
    /\ log' = <<>>
    /\ gap' = <<>>
    /\ UNCHANGED <<rateVars, raceVars, dispatchVars>>
    /\ UNCHANGED parseVars
    /\ UNCHANGED clientVars

\* The call has returned or thrown; the next call starts afresh.
RetryDone ==
    /\ cpc \in {"returned", "threw"}
    /\ dpc = "idle"
    /\ cpc' = "idle"
    /\ apiUrl' = NoUrl
    /\ maxRetries' = 0
    /\ retry' = 0
    /\ cgLastError' = NoError
    /\ cgResult' = NoCallResult
    /\ log' = <<>>
    /\ gap' = <<>>
    /\ UNCHANGED <<rateVars, raceVars, dispatchVars>>
    /\ UNCHANGED parseVars
    /\ UNCHANGED clientVars

(***************************************************************************)
(* The single-key variant of the script (src/unnamed/part_001): its        *)
(* callGeminiWithRetry, lines 242-309, which doPost calls with             *)
(* maxRetries = 2 (line 164).                                              *)
(***************************************************************************)
\* part_001 lines 271 and 289: Math.min(2000 * Math.pow(2, retry), 10000)
SingleKeyWaitTime(r) == Min(2000 * Pow2(r), 10000)

\* part_001 line 278: `Service unavailable after ${maxRetries} retries.
\* Status: ${statusCode}`
SingleKeyUnavailableError(status) ==
    [kind |-> "Service unavailable", marks |-> StatusMarks(status)]

\* part_001 lines 246-285: the try block at loop index r, the fetch
\* producing o.
SingleKeyTryBlock(o, r, n) ==
    IF o.status = 0
        THEN Pass("throw", FetchException(o.marks), 0, NoError)
    ELSE IF o.status = 200
        THEN Pass("return", NoError, 0, NoError)
    ELSE IF o.status = 503 \/ o.status = 429
        THEN IF r < n - 1
                THEN Pass("continue", NoError, SingleKeyWaitTime(r), NoError)
                ELSE Pass("throw", SingleKeyUnavailableError(o.status), 0, NoError)
    ELSE Pass("throw", ApiError(o.status, o.marks), 0, NoError)

\* part_001 lines 284-303: the catch block.
SingleKeyCatchBlock(err, r, n) ==
    IF ErrorIncludes(err, "timeout") \/ ErrorIncludes(err, "Timeout")
        THEN IF r < n - 1
                THEN Pass("continue", NoError, SingleKeyWaitTime(r), err)
                ELSE Pass("throw", RequestTimeoutError, 0, err)
    ELSE Pass("throw", err, 0, err)

\* part_001 lines 246-303: one pass of the loop body.
SingleKeyLoopBody(o, r, n) ==
    LET t == SingleKeyTryBlock(o, r, n)
    IN  IF t.kind = "throw" THEN SingleKeyCatchBlock(t.error, r, n) ELSE t

\* part_001 lines 242-309: one evaluation of the loop condition and, when
\* it holds, one pass of the body with the fetch producing o.
SingleKeyStep(o) ==
    /\ cpc = "variant"
    /\ IF retry < maxRetries
         THEN LET it == SingleKeyLoopBody(o, retry, maxRetries)
              IN  /\ log' = Append(log, [url |-> apiUrl, retry |-> retry,
                                          status |-> o.status, slept |-> gap])
                  /\ gap' = IF it.kind = "continue" THEN <<it.sleep>> ELSE <<>>
                  /\ cgLastError' = IF it.caught # NoError THEN it.caught ELSE cgLastError
                  /\ retry' = IF it.kind = "continue" THEN retry + 1 ELSE retry
                  /\ cpc' = CASE it.kind = "return" -> "returned"
                               [] it.kind = "throw" -> "threw"
                               [] OTHER -> "variant"
                  /\ cgResult' = CASE it.kind = "return" ->
                                          [response |-> ResponseOf(o, apiUrl), error |-> NoError]
                                    [] it.kind = "throw" ->
                                          [response |-> NoFetch, error |-> it.error]
                                    [] OTHER -> cgResult
         ELSE /\ cpc' = "threw"
              /\ cgResult' = [response |-> NoFetch,
                               error |-> IF cgLastError # NoError THEN cgLastError
                                                                  ELSE MaxRetriesError]
              /\ UNCHANGED <<log, gap, cgLastError, retry>>
    /\ UNCHANGED <<apiUrl, maxRetries>>
    /\ UNCHANGED <<rateVars, raceVars, dispatchVars>>
    /\ UNCHANGED parseVars
    /\ UNCHANGED clientVars

\* A call callGeminiWithRetry(apiUrl, requestPayload, n) of the variant.
SingleKeyCall(n) ==
    /\ cpc = "idle"
    /\ dpc = "idle"
    /\ cpc' = "variant"
    /\ apiUrl' = <<PRIMARY_MODEL, 1>>
    /\ maxRetries' = n
    /\ retry' = 0
    /\ cgLastError' = NoError
    /\ cgResult' = NoCallResult
    /\ log' = <<>>
    /\ gap' = <<>>
    /\ UNCHANGED <<rateVars, raceVars, dispatchVars>>
    /\ UNCHANGED parseVars
    /\ UNCHANGED clientVars

(***************************************************************************)
(* The dispatch of doPost, lines 149-298: the fallback loop over the       *)
(* models and the available keys, and the shaping of the response.         *)
(***************************************************************************)
\* Mutant of the list of the models: the fallback model comes first.
models_FallbackFirst == <<FALLBACK_MODEL, PRIMARY_MODEL>>

\* Line 150.
models == <<PRIMARY_MODEL, FALLBACK_MODEL>>

\* Lines 112-119: the keys found in the script properties, in the order of
\* API_KEYS; present is the set of the names that have a value.
availableApiKeys(present) == SelectSeq(API_KEYS, LAMBDA name : name \in present)
RequestLanguages == {"en", "ru"}

NoReply == [success |-> FALSE, answer |-> NoUrl, error |-> NoMessage]

\* Mutant of the texts of the catch block: no text for an error that none of
\* the tests matches (userMessage stays '').
UserMessage_NoElse(err, lang) ==
    LET text ==
            IF ErrorIncludes(err, "RATE_LIMIT_EXCEEDED") \/ ErrorIncludes(err, "429")
                THEN "API rate limit exceeded"
            ELSE IF \/ ErrorIncludes(err, "503")
                    \/ ErrorIncludes(err, "overloaded")
                    \/ ErrorIncludes(err, "UNAVAILABLE")
                THEN "AI service busy"
            ELSE IF ErrorIncludes(err, "timeout") \/ ErrorIncludes(err, "Timeout")
                THEN "request took too long"
            ELSE IF ErrorIncludes(err, "API key")
                THEN "API configuration error"
            ELSE ""
    IN  [text |-> text, locale |-> LocaleOf(lang), max |-> 0]

\* Lines 268-292: the text shown to the user for the error caught.
UserMessage(err, lang) ==
    LET text ==
            IF ErrorIncludes(err, "RATE_LIMIT_EXCEEDED") \/ ErrorIncludes(err, "429")
                THEN "API rate limit exceeded"
            ELSE IF \/ ErrorIncludes(err, "503")
                    \/ ErrorIncludes(err, "overloaded")
                    \/ ErrorIncludes(err, "UNAVAILABLE")
                THEN "AI service busy"
            ELSE IF ErrorIncludes(err, "timeout") \/ ErrorIncludes(err, "Timeout")
                THEN "request took too long"
            ELSE IF ErrorIncludes(err, "API key")
                THEN "API configuration error"
            ELSE "encountered an error"
    IN  [text |-> text, locale |-> LocaleOf(lang), max |-> 0]

\* Line 259: 'No response from Gemini API. Response: ' + the body.
NoCandidateMessage == [text |-> "No response from Gemini API", locale |-> "", max |-> 0]

\* Mutant of the final error: the 429 seen is forgotten.
FinalError_Forgets429(h429, last) == AllFailedError(last)

\* Lines 232-238: the error thrown when no attempt succeeded.
FinalError(h429, last) == IF h429 THEN RateLimitExceeded ELSE AllFailedError(last)

\* Mutant of the loop over the keys: it goes on after a success.
InnerCondition_IgnoresSuccess(k, n, ok) == k < n

\* Mutant of the catch block of the fallback loop: it pauses after a 429 too.
PauseAfterFailure_Always(err, k, n) == IF k < n - 1 THEN <<500>> ELSE <<>>

\* Mutant of the loop over the keys: it runs one index past the last key.
InnerCondition_OneMore(k, n, ok) == k <= n /\ ~ok

\* Lines 158 and 162: the conditions of the two loops.
OuterCondition(m, ok) == m < Len(models) /\ ~ok
InnerCondition(k, n, ok) == k < n /\ ~ok

\* Lines 206-222: the pause of the catch block, none after a 429.
PauseAfterFailure(err, k, n) ==
    IF ErrorIncludes(err, "429") THEN <<>>
    ELSE IF k < n - 1 THEN <<500>> ELSE <<>>

\* Lines 226-229: the pause between the models.
SleepBetweenModels(m, ok) == IF m < Len(models) - 1 /\ ~ok THEN <<1000>> ELSE <<>>

DispatchInit ==
    /\ dpc = "idle"
    /\ language = "en"
    /\ nKeys = 0
    /\ modelAttempt = 0
    /\ keyAttempt = 0
    /\ success = FALSE
    /\ hit429 = FALSE
    /\ lastError = NoError
    /\ apiResponse = NoFetch
    /\ reply = NoReply

\* Lines 150-155, for a request in language lang with n keys configured.
doPostDispatch(lang, n) ==
    /\ dpc = "idle"
    /\ cpc = "idle"
    /\ dpc' = "outer"
    /\ language' = lang
    /\ nKeys' = n
    /\ modelAttempt' = 0
    /\ keyAttempt' = 0
    /\ success' = FALSE
    /\ hit429' = FALSE
    /\ lastError' = NoError
    /\ apiResponse' = NoFetch
    /\ reply' = NoReply
    /\ log' = <<>>
    /\ gap' = <<>>
    /\ UNCHANGED <<cpc, apiUrl, maxRetries, retry, cgLastError, cgResult>>
    /\ UNCHANGED <<rateVars, raceVars>>
    /\ UNCHANGED parseVars
    /\ UNCHANGED clientVars

\* Line 158: the condition of the loop over the models.
doPostOuter ==
    /\ dpc = "outer"
    /\ IF OuterCondition(modelAttempt, success)
         THEN /\ keyAttempt' = 0
              /\ dpc' = "inner"
         ELSE /\ dpc' = "after"
              /\ UNCHANGED keyAttempt
    /\ UNCHANGED <<language, nKeys, modelAttempt, success, hit429, lastError,
                    apiResponse, reply>>
    /\ UNCHANGED <<rateVars, raceVars, retryVars>>
    /\ UNCHANGED parseVars
    /\ UNCHANGED clientVars

\* Line 162: the condition of the loop over the keys; then either the call
\* of line 199 or, the keys exhausted, lines 226-229 and the next model.
doPostInner ==
    /\ dpc = "inner"
    /\ IF InnerCondition(keyAttempt, nKeys, success)
         THEN /\ dpc' = "call"
              /\ cpc' = "loop"
              /\ apiUrl' = <<models[modelAttempt + 1], keyAttempt + 1>>
              /\ maxRetries' = RETRIES_PER_KEY
              /\ retry' = 0
              /\ cgLastError' = NoError
              /\ cgResult' = NoCallResult
              /\ UNCHANGED <<modelAttempt, gap>>
         ELSE /\ gap' = gap \o SleepBetweenModels(modelAttempt, success)
              /\ modelAttempt' = modelAttempt + 1
              /\ dpc' = "outer"
              /\ UNCHANGED <<cpc, apiUrl, maxRetries, retry, cgLastError, cgResult>>
    /\ UNCHANGED <<language, nKeys, keyAttempt, success, hit429, lastError,
                    apiResponse, reply, log>>
    /\ UNCHANGED <<rateVars, raceVars>>
    /\ UNCHANGED parseVars
    /\ UNCHANGED clientVars

\* Lines 199-223: the call has returned (success) or thrown (the catch
\* block); then the next key.
doPostAfterCall ==
    /\ dpc = "call"
    /\ cpc \in {"returned", "threw"}
    /\ IF cpc = "returned"
         THEN /\ apiResponse' = cgResult.response
              /\ success' = TRUE
              /\ UNCHANGED <<hit429, lastError, gap>>
         ELSE /\ hit429' = (hit429 \/ ErrorIncludes(cgResult.error, "429"))
              /\ lastError' = IF ErrorIncludes(cgResult.error, "429")
                                  THEN lastError ELSE cgResult.error
              /\ gap' = gap \o PauseAfterFailure(cgResult.error, keyAttempt, nKeys)
              /\ UNCHANGED <<apiResponse, success>>
    /\ keyAttempt' = keyAttempt + 1
    /\ dpc' = "inner"
    /\ cpc' = "idle"
    /\ UNCHANGED <<language, nKeys, modelAttempt, reply>>
    /\ UNCHANGED <<apiUrl, maxRetries, retry, cgLastError, cgResult, log>>
    /\ UNCHANGED <<rateVars, raceVars>>
    /\ UNCHANGED parseVars
    /\ UNCHANGED clientVars

\* Mutant of the reading of the response: a response without candidates is
\* answered with success = true.
ParseResponse_AlwaysAnswers(r, lang) ==
    IF r.throws # "none"
        THEN [success |-> FALSE, answer |-> NoUrl,
              error |-> UserMessage(BodyException(r), lang)]
    ELSE [success |-> TRUE, answer |-> r.from, error |-> NoMessage]

\* Mutant of the reading of the response: what the reading throws is
\* ignored and an answer that is not there is returned.
ParseResponse_IgnoresThrow(r, lang) ==
    IF r.candidates
        THEN [success |-> TRUE, answer |-> r.from, error |-> NoMessage]
    ELSE [success |-> FALSE, answer |-> NoUrl, error |-> NoCandidateMessage]

\* Lines 240-261 and, for what they throw, 263-298: the reply made from the
\* 200 response r.  The answer is the text of candidates[0].content.parts[0],
\* identified by the call that produced the response.
ParseResponse(r, lang) ==
    IF r.throws # "none"
        THEN [success |-> FALSE, answer |-> NoUrl,
              error |-> UserMessage(BodyException(r), lang)]
    ELSE IF r.candidates
        THEN [success |-> TRUE, answer |-> r.from, error |-> NoMessage]
    ELSE [success |-> FALSE, answer |-> NoUrl, error |-> NoCandidateMessage]

\* Lines 232-298: the response of doPost.
doPostRespond ==
    /\ dpc = "after"
    /\ reply' = IF apiResponse = NoFetch \/ ~success
                    THEN [success |-> FALSE, answer |-> NoUrl,
                          error |-> UserMessage(FinalError(hit429, lastError), language)]
                 ELSE ParseResponse(apiResponse, language)
    /\ dpc' = "done"
    /\ UNCHANGED <<language, nKeys, modelAttempt, keyAttempt, success, hit429,
                    lastError, apiResponse>>
    /\ UNCHANGED <<rateVars, raceVars, retryVars>>
    /\ UNCHANGED parseVars
    /\ UNCHANGED clientVars

\* doPost has returned; the next request starts afresh.
doPostDone ==
    /\ dpc = "done"
    /\ dpc' = "idle"
    /\ language' = "en"
    /\ nKeys' = 0
    /\ modelAttempt' = 0
    /\ keyAttempt' = 0
    /\ success' = FALSE
    /\ hit429' = FALSE
    /\ lastError' = NoError
    /\ apiResponse' = NoFetch
    /\ reply' = NoReply
    /\ apiUrl' = NoUrl
    /\ maxRetries' = 0
    /\ retry' = 0
    /\ cgLastError' = NoError
    /\ cgResult' = NoCallResult
    /\ log' = <<>>
    /\ gap' = <<>>
    /\ UNCHANGED cpc
    /\ UNCHANGED <<rateVars, raceVars>>
    /\ UNCHANGED parseVars
    /\ UNCHANGED clientVars

(***************************************************************************)
(* The parsing of doPost, lines 57-147: the request is read from the form  *)
(* fields or from the JSON body, the question is validated, the keys are   *)
(* looked up and the prompt is built.                                      *)
(*                                                                         *)
(* e.parameter holds the fields of the query string and of a form encoded  *)
(* body; e.postData.contents holds the text of the body, whatever its      *)
(* encoding.  A missing field is the empty string.                         *)
(***************************************************************************)
\* e.parameter.question: missing or empty, only whitespace, a question.
FormQuestions == {"", " ", "hi"}

\* A message of the conversation.
EarlierMessage == [role |-> "assistant", content |-> "welcome"]

\* e.parameter.history: missing, a text that is not JSON, the JSON of an
\* empty array and of an array of one message.
FormHistories == {"", "[{", "[]", "[m]"}

\* JSON.parse of a history text (line 69).
JsonParseHistory(text) ==
    CASE text = "[]" -> [ok |-> TRUE, value |-> <<>>]
      [] text = "[m]" -> [ok |-> TRUE, value |-> <<EarlierMessage>>]
      [] OTHER -> [ok |-> FALSE, value |-> <<>>]

\* e.postData.contents: none, the text of a form encoded body, a text that
\* is neither that nor JSON, or the JSON of an object with its question,
\* language and history ("" and <<>> for a missing member).
NoBody == [kind |-> "none", question |-> "", language |-> "", history |-> <<>>]
FormBody == [kind |-> "form", question |-> "", language |-> "", history |-> <<>>]
BrokenBody == [kind |-> "broken", question |-> "", language |-> "", history |-> <<>>]
JsonBodies == [kind : {"json"}, question : {"", " ", "hello"}, language : {"", "ru"},
               history : {<<>>, <<EarlierMessage>>}]
Bodies == {NoBody, FormBody, BrokenBody} \cup JsonBodies

\* JSON.parse(e.postData.contents) (line 81).
JsonParseBody(contents) == [ok |-> contents.kind = "json", data |-> contents]

Posts == [question : FormQuestions, language : Languages, history : FormHistories,
          body : Bodies]
NoPost == [question |-> "", language |-> "", history |-> "", body |-> NoBody]

\* userQuestion.trim(), for the questions of the model.
Trim(q) == IF q = " " THEN "" ELSE q

\* The failures of lines 88-91, 97-100, 104-107 and 122-127.
InvalidJsonMessage == [text |-> "Invalid JSON", locale |-> "", max |-> 0]
NoDataMessage == [text |-> "No data received", locale |-> "", max |-> 0]
QuestionRequiredMessage ==
    [text |-> "Question is required and cannot be empty", locale |-> "", max |-> 0]
KeysMissingMessage(lang) ==
    [text |-> "API keys not configured", locale |-> LocaleOf(lang), max |-> 0]

\* Mutant of the history of a form request: a text that is not JSON is kept
\* as a message.
FormHistory_KeepsText(text) ==
    IF text = "" THEN <<>>
    ELSE IF JsonParseHistory(text).ok THEN JsonParseHistory(text).value
    ELSE <<[role |-> "user", content |-> text]>>

\* Lines 59 and 67-74: the history of a form request; the exception of
\* JSON.parse is caught and history stays [].
FormHistory(text) ==
    IF text = "" THEN <<>>
    ELSE IF JsonParseHistory(text).ok THEN JsonParseHistory(text).value
    ELSE <<>>

Parsed(q, lang, h) ==
    [failed |-> FALSE, error |-> NoMessage, userQuestion |-> q, language |-> lang,
     history |-> h]
ParseFailure(message) ==
    [failed |-> TRUE, error |-> message, userQuestion |-> "", language |-> "en",
     history |-> <<>>]

\* Mutant of the reading of the request: the JSON body is tried first.
ParseRequest_BodyFirst(d) ==
    IF d.body.kind # "none"
        THEN LET r == JsonParseBody(d.body)
             IN  IF r.ok
                    THEN Parsed(r.data.question, Or(r.data.language, "en"), r.data.history)
                    ELSE ParseFailure(InvalidJsonMessage)
    ELSE IF d.question # ""
        THEN Parsed(d.question, Or(d.language, "en"), FormHistory(d.history))
    ELSE ParseFailure(NoDataMessage)

\* Lines 58-101: the request is read from the form fields, else from the
\* JSON body.
ParseRequest(d) ==
    IF d.question # ""
        THEN Parsed(d.question, Or(d.language, "en"), FormHistory(d.history))
    ELSE IF d.body.kind # "none"
        THEN LET r == JsonParseBody(d.body)
             IN  IF r.ok
                    THEN Parsed(r.data.question, Or(r.data.language, "en"), r.data.history)
                    ELSE ParseFailure(InvalidJsonMessage)
    ELSE ParseFailure(NoDataMessage)

\* Line 103: !userQuestion || userQuestion.trim() === ''
QuestionMissing(q) == q = "" \/ Trim(q) = ""

\* Mutant of the returns of lines 88, 97 and 104: doPost goes on.
AfterParse_GoesOn(failed) == "keys"

\* Where doPost goes after lines 58-108: it returns the failure or goes on
\* to the keys.
AfterParse(failed) == IF failed THEN "done" ELSE "keys"

\* Lines 136-147: the prompt.  The 'Previous conversation' section is there
\* when context is not empty.
NoPrompt == [context |-> <<>>, question |-> "", answerIn |-> ""]
Context(h) ==
    [i \in 1..Len(h) |->
        <<IF h[i].role = "user" THEN "User" ELSE "Assistant", h[i].content>>]
Prompt(h, q, lang) ==
    [context |-> Context(h), question |-> q,
     answerIn |-> IF lang = "en" THEN "English" ELSE "Russian"]

ParseInit ==
    /\ post = NoPost
    /\ userQuestion = ""
    /\ history = <<>>
    /\ prompt = NoPrompt

\* Lines 57-108 for a request that passed the rate limiter.
doPostParse(d) ==
    /\ pc = "parse"
    /\ post = NoPost
    /\ d # NoPost
    /\ post' = d
    /\ LET r == ParseRequest(d)
           failure == IF r.failed THEN r.error
                      ELSE IF QuestionMissing(r.userQuestion) THEN QuestionRequiredMessage
                      ELSE NoMessage
       IN  /\ userQuestion' = r.userQuestion
           /\ history' = r.history
           /\ language' = r.language
           /\ response' = IF failure # NoMessage
                              THEN [success |-> FALSE, error |-> failure]
                              ELSE response
           /\ pc' = AfterParse(failure # NoMessage)
    /\ UNCHANGED <<cache, req, loc, rl, thrown, windowAllowed, dayAllowed, ttl, age>>
    /\ UNCHANGED <<dpc, nKeys, modelAttempt, keyAttempt, success, hit429, lastError,
                    apiResponse, reply>>
    /\ UNCHANGED <<prompt, raceVars, retryVars>>
    /\ UNCHANGED clientVars

\* The numbers of keys found in the script properties that SpecDoPost
\* explores.
KeyCounts == {0, 1}

\* Lines 110-147 with n keys found: the failure of lines 121-128, or the
\* prompt.
doPostKeys(n) ==
    /\ pc = "keys"
    /\ nKeys' = n
    /\ IF n = 0
         THEN /\ response' = [success |-> FALSE, error |-> KeysMissingMessage(language)]
              /\ pc' = "done"
              /\ UNCHANGED prompt
         ELSE /\ prompt' = Prompt(history, userQuestion, language)
              /\ pc' = "dispatch"
              /\ UNCHANGED response
    /\ UNCHANGED <<cache, req, loc, rl, thrown, windowAllowed, dayAllowed, ttl, age>>
    /\ UNCHANGED <<dpc, language, modelAttempt, keyAttempt, success, hit429, lastError,
                    apiResponse, reply>>
    /\ post' = NoPost
    /\ UNCHANGED <<userQuestion, history, raceVars, retryVars>>
    /\ UNCHANGED clientVars

\* Lines 149-155 for the request parsed.
doPostCall == pc = "dispatch" /\ doPostDispatch(language, nKeys)

\* The requests SpecDoPost explores.
WithinDoPostBudget(e) == FingerprintOf(e) = HeavyFingerprint

doPostRequest(e) == pc = "idle" /\ WithinDoPostBudget(e) /\ doPostCheck(e, "none")

\* doPost has returned, at one of its early returns or with the reply of
\* the dispatch; the next request starts afresh.
doPostEnd ==
    /\ \/ pc = "done" /\ dpc = "idle"
       \/ pc = "dispatch" /\ dpc = "done"
    /\ pc' = "idle"
    /\ req' = NoRequest
    /\ loc' = NoLocals
    /\ rl' = NoResult
    /\ thrown' = "none"
    /\ response' = NoResponse
    /\ post' = NoPost
    /\ userQuestion' = ""
    /\ history' = <<>>
    /\ prompt' = NoPrompt
    /\ dpc' = "idle"
    /\ language' = "en"
    /\ nKeys' = 0
    /\ modelAttempt' = 0
    /\ keyAttempt' = 0
    /\ success' = FALSE
    /\ hit429' = FALSE
    /\ lastError' = NoError
    /\ apiResponse' = NoFetch
    /\ reply' = NoReply
    /\ apiUrl' = NoUrl
    /\ maxRetries' = 0
    /\ retry' = 0
    /\ cgLastError' = NoError
    /\ cgResult' = NoCallResult
    /\ log' = <<>>
    /\ gap' = <<>>
    /\ UNCHANGED <<cache, windowAllowed, dayAllowed, ttl, age, cpc, raceVars>>
    /\ UNCHANGED clientVars

\* The puts of the hourly count that a throwing put of the daily count left
\* uncounted.
HalfCounted(fp) == CountOf(cache, hourKey(fp)) - windowAllowed[fp]

\* A request during which the operation `fault` of checkRateLimit throws.
doPostRequestWithFault(e, fault) ==
    /\ pc = "idle"
    /\ WithinDoPostBudget(e)
    /\ HalfCounted(FingerprintOf(e)) < MaxPutFaults
    /\ doPostCheck(e, fault)

\* The counts a request finds: one below either limit.
DoPostPriors ==
    {<<MAX_REQUESTS_PER_HOUR - 1, MAX_REQUESTS_PER_HOUR - 1>>,
     <<0, MAX_REQUESTS_PER_DAY - 1>>}

(***************************************************************************)
(* Requests as doPost receives them, the parameters together with the      *)
(* body: a form request, whose fields are in e.parameter and whose body is *)
(* the form text, or a JSON request, whose question, language and history  *)
(* are in the body and not among the parameters.                           *)
(***************************************************************************)
Arrivals ==
    {r \in [parameter : Events, body : {FormBody} \cup JsonBodies] :
        r.body.kind = "json" => r.parameter.language = ""}

\* The request r as lines 57-101 will read it; a form request has the
\* question 'hi'.
ArrivalPost(r) ==
    [question |-> IF r.body.kind = "form" THEN "hi" ELSE "",
     language |-> r.parameter.language,
     history |-> "",
     body |-> r.body]

\* Lines 64 and 83: the language the request d asks for.
RequestedLanguage(d) ==
    IF d.body.kind = "json" THEN Or(d.body.language, "en") ELSE Or(d.language, "en")

\* doPost, lines 40-50, for the request r.
doPostArrive(r) ==
    /\ pc = "idle"
    /\ WithinDoPostBudget(r.parameter)
    /\ doPostLimit(r.parameter, "none")
    /\ post' = ArrivalPost(r)
    /\ UNCHANGED <<userQuestion, history, prompt>>
    /\ UNCHANGED clientVars

\* The rest of doPost (lines 52-298), which touches no cache entry, or the
\* return of the denial.
doPostLeave ==
    /\ pc \in {"parse", "done"}
    /\ post # NoPost
    /\ pc' = "idle"
    /\ req' = NoRequest
    /\ loc' = NoLocals
    /\ rl' = NoResult
    /\ thrown' = "none"
    /\ response' = NoResponse
    /\ post' = NoPost
    /\ UNCHANGED <<cache, windowAllowed, dayAllowed, ttl, age>>
    /\ UNCHANGED <<userQuestion, history, prompt>>
    /\ UNCHANGED <<raceVars, retryVars, dispatchVars>>
    /\ UNCHANGED clientVars

\* The counts a request finds: at either limit, or one below.
ArrivalPriors ==
    DoPostPriors \cup {<<MAX_REQUESTS_PER_HOUR, MAX_REQUESTS_PER_HOUR>>,
                       <<0, MAX_REQUESTS_PER_DAY>>}

(***************************************************************************)
(* The chat client, src/chatbot.js.  A request goes through the promise    *)
(* chain of lines 156-235: the fetch ("sent"), response.text()             *)
(* ("reading"), the parsing of the text ("text"), the handler of the data  *)
(* ("data") and the catch handler ("rejected").  The last three are        *)
(* reactions of settled promises: they run as microtasks, before the next  *)
(* event of the user or of the network is handled.                         *)
(***************************************************************************)
\* Line 206: conversationHistory.length > 20, and slice(-20) of line 207.
MAX_HISTORY == 20

\* The requests one behaviour of the client sends.
MaxSent == 11

Undefined == "undefined"
\* Line 6: localStorage.getItem('preferredLanguage') || 'en'
ClientLanguages == {"en", "ru"}
\* What the input holds when sendMessage runs.
Typed == {"", " ", "hello"}
\* Lines 275-287: the listeners that call sendMessage.
Triggers == {"click", "enterEn", "enterRu"}

\* Lines 61-69: the welcome message initChatbot pushes.
WelcomeMessage(lang) == [role |-> "assistant", content |-> <<"welcome", lang>>, n |-> 0]

\* What JSON.parse of the response text gives: null, or an object with
\* success, answer and error.
NullData == [object |-> FALSE, success |-> FALSE, answer |-> Undefined, error |-> Undefined]
Datas ==
    {NullData,
     [object |-> TRUE, success |-> TRUE, answer |-> "answer", error |-> Undefined],
     [object |-> TRUE, success |-> FALSE, answer |-> Undefined, error |-> "error"],
     [object |-> TRUE, success |-> FALSE, answer |-> Undefined, error |-> Undefined]}

\* The texts response.text() resolves with: JSON, JSON wrapped in other
\* text, a wrapped object that is not JSON, text without an object.
NoText == [form |-> "none", data |-> NullData]
ResponseTexts ==
    [form : {"json", "wrapped"}, data : Datas]
    \cup {[form |-> f, data |-> NullData] : f \in {"broken", "plain"}}

\* Lines 168-182: the data parsed from the text, or the throw.
ParseText(text) ==
    IF text.form = "json"
        THEN [threw |-> FALSE, data |-> text.data]
    ELSE IF text.form = "wrapped"
        THEN [threw |-> FALSE, data |-> text.data]
    ELSE [threw |-> TRUE, data |-> NullData]

\* What trackAIChat (lines 41-53, called at line 197) finds in window.
Trackers == {"none", "tracks", "throws"}

\* Line 118, negated: sendMessage goes on.
MaySend_IgnoresDisabled(message, disabled) == message # ""
MaySend(message, disabled) == ~(message = "" \/ disabled)

\* Lines 185 and 225: chatbotSend.disabled = false
Enable_Forgets(send) == send
Enable(send) == [send EXCEPT !.disabled = FALSE]

\* Lines 206-208: only the last 20 messages are kept.
KeepLastExchanges_Everything(h) == h
KeepLastExchanges(h) ==
    IF Len(h) > MAX_HISTORY THEN SubSeq(h, Len(h) - MAX_HISTORY + 1, Len(h)) ELSE h

\* Lines 200-203: the two messages pushed for the exchange of request r.
Exchange(r) ==
    <<[role |-> "user", content |-> r.message, n |-> r.n],
      [role |-> "assistant", content |-> r.data.answer, n |-> r.n]>>

\* Lines 211-215: the text of the error message shown.
ErrorText(data, lang) ==
    IF data.object /\ data.error # Undefined THEN <<data.error>> ELSE <<"generic", lang>>

NoChild == [type |-> "none", isError |-> FALSE, text |-> <<>>]

ClientInit(lang) ==
    /\ chatbotSend = [disabled |-> FALSE]
    /\ chatbotLoading = [display |-> "none"]
    /\ conversationHistory = <<WelcomeMessage(lang)>>
    /\ currentLang = lang
    /\ chain = {}
    /\ sent = 0
    /\ lastChild = NoChild

serverVars == <<rateVars, raceVars, retryVars, dispatchVars, parseVars>>

\* A reaction of a settled promise is waiting to run.
MicrotaskPending == \E r \in chain : r.stage \in {"text", "data", "rejected"}

\* The requests sent whose response has not arrived.
InFlight == {r \in chain : r.stage \in {"sent", "reading"}}

\* Request r of the chain at stage st.
Staged(r, st) == (chain \ {r}) \cup {[r EXCEPT !.stage = st]}

\* sendMessage, lines 116-163, called by a click on the send button (which
\* a disabled button does not receive) or by Enter in one of the inputs.
sendMessage(trigger, typed) ==
    /\ ~MicrotaskPending
    /\ sent < MaxSent
    /\ trigger = "click" => ~chatbotSend.disabled
    /\ LET message == Trim(typed)
       IN  IF MaySend(message, chatbotSend.disabled)
             THEN /\ lastChild' = [type |-> "user", isError |-> FALSE, text |-> <<message>>]
                  /\ chatbotSend' = [chatbotSend EXCEPT !.disabled = TRUE]
                  /\ chatbotLoading' = [chatbotLoading EXCEPT !.display = "block"]
                  /\ sent' = sent + 1
                  /\ chain' = chain \cup
                        {[n |-> sent + 1, message |-> message, language |-> currentLang,
                          history |-> conversationHistory, stage |-> "sent",
                          text |-> NoText, data |-> NullData]}
                  /\ UNCHANGED <<conversationHistory, currentLang>>
             ELSE UNCHANGED clientVars
    /\ UNCHANGED serverVars

\* Lines 156-167: the fetch of request r settles: with a response, whose
\* text is then read, or with a network error.
FetchSettles(r, responds) ==
    /\ ~MicrotaskPending
    /\ r.stage = "sent"
    /\ chain' = Staged(r, IF responds THEN "reading" ELSE "rejected")
    /\ UNCHANGED <<chatbotSend, chatbotLoading, conversationHistory, currentLang, sent,
                   lastChild>>
    /\ UNCHANGED serverVars

\* Lines 164-168: response.text() of request r resolves with text t.
TextSettles(r, t) ==
    /\ ~MicrotaskPending
    /\ r.stage = "reading"
    /\ chain' = (chain \ {r}) \cup {[r EXCEPT !.stage = "text", !.text = t]}
    /\ UNCHANGED <<chatbotSend, chatbotLoading, conversationHistory, currentLang, sent,
                   lastChild>>
    /\ UNCHANGED serverVars

\* Lines 168-182: the text of request r is parsed.
ThenText(r) ==
    /\ r.stage = "text"
    /\ LET p == ParseText(r.text)
       IN  chain' = (chain \ {r}) \cup
              {IF p.threw THEN [r EXCEPT !.stage = "rejected"]
                          ELSE [r EXCEPT !.stage = "data", !.data = p.data]}
    /\ UNCHANGED <<chatbotSend, chatbotLoading, conversationHistory, currentLang, sent,
                   lastChild>>
    /\ UNCHANGED serverVars

\* Lines 183-222: the handler of the data of request r; trackAIChat may
\* throw after the answer was shown.
ThenData(r, tracker) ==
    /\ r.stage = "data"
    /\ chatbotLoading' = [chatbotLoading EXCEPT !.display = "none"]
    /\ chatbotSend' = Enable(chatbotSend)
    /\ IF r.data.object /\ r.data.success
         THEN /\ lastChild' = [type |-> "ai", isError |-> FALSE, text |-> <<r.data.answer>>]
              /\ IF tracker = "throws"
                   THEN /\ chain' = Staged(r, "rejected")
                        /\ UNCHANGED conversationHistory
                   ELSE /\ chain' = chain \ {r}
                        /\ conversationHistory' =
                              KeepLastExchanges(conversationHistory \o Exchange(r))
         ELSE /\ lastChild' = [type |-> "ai", isError |-> TRUE,
                               text |-> ErrorText(r.data, currentLang)]
              /\ chain' = chain \ {r}
              /\ UNCHANGED conversationHistory
    /\ UNCHANGED <<currentLang, sent>>
    /\ UNCHANGED serverVars

\* Lines 223-235: the catch handler, for request r.
CatchHandler(r) ==
    /\ r.stage = "rejected"
    /\ chatbotLoading' = [chatbotLoading EXCEPT !.display = "none"]
    /\ chatbotSend' = Enable(chatbotSend)
    /\ lastChild' = [type |-> "ai", isError |-> TRUE, text |-> <<"connect", currentLang>>]
    /\ chain' = chain \ {r}
    /\ UNCHANGED <<conversationHistory, currentLang, sent>>
    /\ UNCHANGED serverVars

\* The reactions of the settled promises of the chain.
Microtask ==
    \E r \in chain :
        \/ ThenText(r)
        \/ \E tracker \in Trackers : ThenData(r, tracker)
        \/ CatchHandler(r)

(***************************************************************************)
(* The specifications.                                                     *)
(***************************************************************************)
Init == RateInit /\ RaceInit /\ RetryInit /\ DispatchInit /\ ParseInit /\ ClientInit("en")

Next ==
    \/ \E e \in Events : HandleRequest(e)
    \/ doPostFinish
    \/ \E fp \in Fingerprints : ExpireHour(fp)
    \/ \E fp \in Fingerprints : ExpireDay(fp)

Spec == Init /\ [][Next]_vars

NextFault ==
    \/ \E e \in Events, fault \in FaultPoints \cup {"none"} :
            HandleRequestWithFault(e, fault)
    \/ doPostFinish
    \/ \E fp \in Fingerprints : ExpireHour(fp)
    \/ \E fp \in Fingerprints : ExpireDay(fp)

SpecFault == Init /\ [][NextFault]_vars

NextClock ==
    \/ \E e \in Events : TimedRequest(e)
    \/ doPostFinish
    \/ \E d \in Ticks : Advance(d)

SpecClock == Init /\ [][NextClock]_vars

NextRace ==
    \/ \E p \in Procs : RaceGetHour(p)
    \/ \E p \in Procs : RaceGetDay(p)
    \/ \E p \in Procs : RacePutHour(p)
    \/ \E p \in Procs : RacePutDay(p)

InitRace == RacePriorInit /\ RaceInit /\ RetryInit /\ DispatchInit /\ ParseInit /\ ClientInit("en")

SpecRace == InitRace /\ [][NextRace]_vars

NextRetry ==
    \/ \E n \in 0..MaxRetries : RetryCall(n)
    \/ \E o \in FetchOutcomes : callGeminiStep(o)
    \/ RetryDone

SpecRetry == Init /\ [][NextRetry]_vars

NextSingleKey ==
    \/ \E n \in 0..MaxRetries : SingleKeyCall(n)
    \/ \E o \in FetchOutcomes : SingleKeyStep(o)
    \/ RetryDone

SpecSingleKey == Init /\ [][NextSingleKey]_vars

NextDispatch ==
    \/ \E lang \in RequestLanguages, n \in 1..Len(API_KEYS) : doPostDispatch(lang, n)
    \/ doPostOuter
    \/ doPostInner
    \/ \E o \in FetchOutcomes : callGeminiStep(o)
    \/ doPostAfterCall
    \/ doPostRespond
    \/ doPostDone

SpecDispatch == Init /\ [][NextDispatch]_vars

InitDoPost ==
    /\ \E prior \in DoPostPriors : PriorInit(prior)
    /\ RaceInit /\ RetryInit /\ DispatchInit /\ ParseInit /\ ClientInit("en")

NextDoPost ==
    \/ pc = "idle" /\ \E e \in Events : doPostRequest(e)
    \/ pc = "parse" /\ \E d \in Posts : doPostParse(d)
    \/ \E n \in KeyCounts : doPostKeys(n)
    \/ doPostCall
    \/ doPostOuter
    \/ doPostInner
    \/ \E o \in FetchOutcomes : callGeminiStep(o)
    \/ doPostAfterCall
    \/ doPostRespond
    \/ doPostEnd

SpecDoPost == InitDoPost /\ [][NextDoPost]_vars

\* The whole of doPost with the cache working or failing.
NextInvoke ==
    \/ NextDoPost
    \/ pc = "idle" /\ \E e \in Events, fault \in FaultPoints :
                            doPostRequestWithFault(e, fault)

SpecInvoke == InitDoPost /\ [][NextInvoke]_vars

\* What the fetches of SpecTerminate produce: every status the code tells
\* apart and a timeout exception, with a readable answer or none.
TerminateOutcomes ==
    {o \in FetchOutcomes : o.throws = "none" /\ o.marks \in {{}, {"Timeout"}}}

\* A step of the script: an evaluation of a loop condition, a fetch that
\* returns or throws (with the sleep after it), the catch block, the reply.
ScriptStep ==
    \/ doPostOuter
    \/ doPostInner
    \/ \E o \in TerminateOutcomes : callGeminiStep(o)
    \/ doPostAfterCall
    \/ doPostRespond

\* doPost's dispatch and callGeminiWithRetry on its own.
NextTerminate ==
    \/ \E n \in 0..MaxRetries : RetryCall(n)
    \/ RetryDone
    \/ \E n \in 1..Len(API_KEYS) : doPostDispatch("en", n)
    \/ ScriptStep
    \/ doPostDone

\* A script that has started goes on to its next step: every fetch returns
\* or throws and every sleep ends.
SpecTerminate == Init /\ [][NextTerminate]_vars /\ WF_vars(ScriptStep)

\* The counts a request finds: at either limit.
DenialPriors ==
    {<<MAX_REQUESTS_PER_HOUR, MAX_REQUESTS_PER_HOUR>>, <<0, MAX_REQUESTS_PER_DAY>>}

InitDenial ==
    /\ \E prior \in DenialPriors : PriorInit(prior)
    /\ RaceInit /\ RetryInit /\ DispatchInit /\ ParseInit /\ ClientInit("en")

\* Requests at the limits, handled one at a time while time passes.
NextDenial ==
    \/ pc = "idle" /\ \E e \in Events : RequestAtLimit(e)
    \/ doPostFinish
    \/ \E d \in Ticks : Advance(d)

SpecDenial == InitDenial /\ [][NextDenial]_vars

InitArrival ==
    /\ \E prior \in ArrivalPriors : PriorInit(prior)
    /\ RaceInit /\ RetryInit /\ DispatchInit /\ ParseInit /\ ClientInit("en")

NextArrival ==
    \/ pc = "idle" /\ \E r \in Arrivals : doPostArrive(r)
    \/ doPostLeave

SpecArrival == InitArrival /\ [][NextArrival]_vars

\* callGeminiWithRetry on its own and as doPost calls it.
\* Lines 334-335 and 372-373: the cache operations that may throw.
CacheFaults == {"getHour", "getDay", "putHour", "putDay"}

\* A request of SpecClock during which the operation `fault` of
\* checkRateLimit throws.
TimedRequestWithFault(e, fault) ==
    /\ pc = "idle"
    /\ WithinClockBudget(e)
    /\ HalfCounted(FingerprintOf(e)) < MaxPutFaults
    /\ doPostCheck(e, fault)

\* Requests one at a time, with the time to live of the entries and cache
\* operations that may throw.
NextClockFault ==
    \/ pc = "idle" /\ \E e \in Events : TimedRequest(e)
    \/ pc = "idle" /\ \E e \in Events, fault \in CacheFaults :
            TimedRequestWithFault(e, fault)
    \/ doPostFinish
    \/ \E d \in Ticks : Advance(d)

SpecClockFault == Init /\ [][NextClockFault]_vars

InitClient ==
    /\ RateInit /\ RaceInit /\ RetryInit /\ DispatchInit /\ ParseInit
    /\ \E lang \in ClientLanguages : ClientInit(lang)

NextClient ==
    \/ \E trigger \in Triggers, typed \in Typed : sendMessage(trigger, typed)
    \/ \E r \in chain, responds \in BOOLEAN : FetchSettles(r, responds)
    \/ \E r \in chain, t \in ResponseTexts : TextSettles(r, t)
    \/ \E r \in chain : ThenText(r)
    \/ \E r \in chain, tracker \in Trackers : ThenData(r, tracker)
    \/ \E r \in chain : CatchHandler(r)

SpecClient == InitClient /\ [][NextClient]_vars

\* The reactions of settled promises are run: the microtask queue is
\* emptied after every task.
SpecClientFair == InitClient /\ [][NextClient]_vars /\ WF_vars(Microtask)

NextCalls == NextRetry \/ NextDispatch

SpecCalls == Init /\ [][NextCalls]_vars

(***************************************************************************)
(* Properties.                                                             *)
(***************************************************************************)
\* A request that reached the counting has been decided.
Counted == pc # "idle" /\ loc.fp # <<>> /\ thrown = "none"
\* The requests of its fingerprint counted in the window, and in the day,
\* before it.
PreWindow == windowAllowed[loc.fp] - (IF rl.allowed THEN 1 ELSE 0)
PreDay == dayAllowed[loc.fp] - (IF rl.allowed THEN 1 ELSE 0)
DeniedWith(message) ==
    /\ ~rl.allowed
    /\ rl.message = message
    /\ pc = "done"
    /\ response = [success |-> FALSE, error |-> message]

C2_AtMostOneOver ==
    windowAllowed[RaceFingerprint] <= MAX_REQUESTS_PER_HOUR + 1

\* C3: within one doPost no fetch follows a fetch that returned 200, so
\* after A+k1 = 429 and A+k2 = 200 model B is never called; the answer
\* returned is the one of the call that returned 200.
C3_FirstSuccessWins ==
    dpc # "idle" =>
        /\ \A i \in 1..Len(log) : log[i].status = 200 => i = Len(log)
        /\ (dpc = "done" /\ reply.success) =>
                /\ log[Len(log)].status = 200
                /\ reply.answer = log[Len(log)].url
        /\ (/\ Len(log) >= 2
            /\ log[1].url = <<PRIMARY_MODEL, 1>> /\ log[1].status = 429
            /\ log[2].url = <<PRIMARY_MODEL, 2>> /\ log[2].status = 200) =>
                /\ Len(log) = 2
                /\ dpc = "done" => reply.answer \in {<<PRIMARY_MODEL, 2>>, NoUrl}

C3_Witness ==
    /\ dpc = "done"
    /\ nKeys = 2
    /\ Len(log) = 2
    /\ log[1].url = <<PRIMARY_MODEL, 1>> /\ log[1].status = 429
    /\ log[2].url = <<PRIMARY_MODEL, 2>> /\ log[2].status = 200
    /\ reply = [success |-> TRUE, answer |-> <<PRIMARY_MODEL, 2>>, error |-> NoMessage]

\* The rate-limit text of lines 273-275 in the language of the request.
RateLimitText(lang) ==
    [text |-> "API rate limit exceeded", locale |-> IF lang = "en" THEN "en" ELSE "ru",
     max |-> 0]

\* C4: when every attempt of a request failed and one of the failures was
\* a 429, doPost ends with RATE_LIMIT_EXCEEDED and returns the rate-limit
\* text in the language of the request, whatever the last failure was.
C4_RateLimitExceeded ==
    (/\ dpc = "done"
     /\ ~success
     /\ \E i \in 1..Len(log) : log[i].status = 429) =>
        /\ FinalError(hit429, lastError) = RateLimitExceeded
        /\ reply = [success |-> FALSE, answer |-> NoUrl, error |-> RateLimitText(language)]
        /\ language = "en" => reply.error.locale = "en"
        /\ language = "ru" => reply.error.locale = "ru"

\* Every attempt failed, the first with a 429 and the last with a 503, for
\* a request in Russian.
C4_Witness ==
    /\ dpc = "done"
    /\ ~success
    /\ language = "ru"
    /\ Len(log) = 2 * nKeys
    /\ log[1].status = 429
    /\ log[Len(log)].status = 503
    /\ reply.error = RateLimitText("ru")

\* C5: in callGeminiWithRetry a response with status 429 ends the call at
\* once with the rate-limit error: it is the last fetch of the call and no
\* sleep follows it.
C5_NoRetryOn429 ==
    (cpc # "idle" /\ dpc = "idle") =>
        \A i \in 1..Len(log) :
            log[i].status = 429 =>
                /\ i = Len(log)
                /\ cpc = "threw"
                /\ cgResult.error = RateLimitError
                /\ gap = <<>>

\* A 429 at the second pass of a call with maxRetries = 3.
C5_Witness ==
    /\ dpc = "idle"
    /\ maxRetries = 3
    /\ Len(log) = 2
    /\ log[2].retry = 1
    /\ log[2].status = 429
    /\ cpc = "threw"

\* The pair tried after <<model, key>> with n keys available.
NextPair(url, n) == IF url[2] < n THEN <<url[1], url[2] + 1>> ELSE <<FALLBACK_MODEL, 1>>

\* C6: callGeminiWithRetry makes at most maxRetries fetches; when every
\* fetch returns 503 it makes exactly maxRetries fetches and throws the
\* 'Service unavailable' error; in doPost the fetch after such a failure
\* goes to the next key.
C6_RetryBudget ==
    /\ cpc # "idle" =>
            /\ \A i \in 1..Len(log) : log[i].url = apiUrl => log[i].retry < maxRetries
            /\ dpc = "idle" => Len(log) <= maxRetries
    /\ (/\ cpc \in {"returned", "threw"}
        /\ dpc = "idle"
        /\ Len(log) >= 1
        /\ \A i \in 1..Len(log) : log[i].status = 503) =>
            /\ Len(log) = maxRetries
            /\ cpc = "threw"
            /\ cgResult.error = ServiceUnavailableError
    /\ dpc # "idle" =>
            \A i \in 1..(Len(log) - 1) :
                log[i].status = 503 => log[i + 1].url = NextPair(log[i].url, nKeys)

\* Two fetches, both 503, with maxRetries = 2.
C6_Witness ==
    /\ dpc = "idle"
    /\ maxRetries = 2
    /\ cpc = "threw"
    /\ Len(log) = 2
    /\ log[1].status = 503
    /\ log[2].status = 503
    /\ log[2].slept = <<1000>>

C8_FailOpen ==
    thrown # "none" =>
        /\ rl.allowed
        /\ pc = "parse"
        /\ response = NoResponse

\* The second cache.put threw after the first one took effect.
C8_Witness ==
    /\ thrown = "putDay"
    /\ pc = "parse"
    /\ CountOf(cache, hourKey(req.fp)) = 2
    /\ CountOf(cache, dayKey(req.fp)) = 1

\* C9: a request whose userIP is whitelisted is allowed whatever the
\* counters of its fingerprint hold.
C9_WhitelistAllowed ==
    (pc # "idle" /\ req.userIP \in WHITELISTED_IPS) =>
        /\ rl.allowed
        /\ pc = "parse"

\* A whitelisted request under a fingerprint whose two counters are at
\* their maximum.
C9_Witness ==
    /\ pc = "parse"
    /\ req.userIP = "172.16.255.61"
    /\ ~IsLocalhost(req.referrer)
    /\ CountOf(cache, hourKey(req.fp)) = MAX_REQUESTS_PER_HOUR
    /\ CountOf(cache, dayKey(req.fp)) = MAX_REQUESTS_PER_DAY

\* C10: with ALLOW_LOCALHOST, a request whose referrer contains
\* 'localhost' or '127.0.0.1' is allowed whatever the counters of its
\* fingerprint hold.
C10_LocalhostAllowed ==
    (/\ pc # "idle"
     /\ ALLOW_LOCALHOST
     /\ Includes(req.referrer, "localhost") \/ Includes(req.referrer, "127.0.0.1")) =>
        /\ rl.allowed
        /\ pc = "parse"

\* A request from 127.0.0.1, not whitelisted, under a fingerprint whose two
\* counters are at their maximum.
C10_Witness ==
    /\ pc = "parse"
    /\ req.userIP \notin WHITELISTED_IPS
    /\ Includes(req.referrer, "127.0.0.1")
    /\ CountOf(cache, hourKey(req.fp)) = MAX_REQUESTS_PER_HOUR
    /\ CountOf(cache, dayKey(req.fp)) = MAX_REQUESTS_PER_DAY

\* C11: a request with no bypass that finds its hourly count below
\* MAX_REQUESTS_PER_HOUR and its daily count at or above
\* MAX_REQUESTS_PER_DAY is denied with the daily-limit message, which names
\* MAX_REQUESTS_PER_DAY; of the requests handled one after another under a
\* fingerprint while its daily entry lives, at most MAX_REQUESTS_PER_DAY
\* are allowed.
C11_DailyLimit ==
    /\ \A fp \in Fingerprints : dayAllowed[fp] <= MAX_REQUESTS_PER_DAY
    /\ (/\ Counted
        /\ loc.hourCount < MAX_REQUESTS_PER_HOUR
        /\ loc.dayCount >= MAX_REQUESTS_PER_DAY) =>
            /\ DeniedWith(DailyMessage(loc.lang))
            /\ response.error.text = "daily"
            /\ response.error.max = MAX_REQUESTS_PER_DAY
            /\ cache[dayKey(loc.fp)] = Stringify(loc.dayCount)

\* A request in Russian in a fresh hourly window, after MAX_REQUESTS_PER_DAY
\* requests of its fingerprint were allowed in the day.
C11_Witness ==
    /\ pc = "done"
    /\ loc.hourCount = 0
    /\ loc.dayCount = MAX_REQUESTS_PER_DAY
    /\ dayAllowed[loc.fp] = MAX_REQUESTS_PER_DAY
    /\ response = [success |-> FALSE, error |-> DailyMessage("ru")]

\* C12: the counting window is of fixed duration: an hourly entry is gone
\* no later than HOUR_TTL seconds after the first counted request of its
\* window, and a daily entry no later than DAY_TTL seconds after, however
\* many requests were counted in between.
C12_FixedWindow ==
    \A k \in CacheKeys : cache[k] # NULL => age[k] < TimeToLive(k)

\* C13: under any interleaving of requests, the count stored under
\* rate_hour_<fp> never exceeds MAX_REQUESTS_PER_HOUR + 1 and the count
\* stored under rate_day_<fp> never exceeds MAX_REQUESTS_PER_DAY + 1.
C13_StoredCountsBounded ==
    \A fp \in Fingerprints :
        /\ CountOf(cache, hourKey(fp)) <= MAX_REQUESTS_PER_HOUR + 1
        /\ CountOf(cache, dayKey(fp)) <= MAX_REQUESTS_PER_DAY + 1

\* Both stored counts are at their maximum after executions that
\* interleaved: two more requests were allowed than the hourly entry counts.
C13_Witness ==
    /\ \A p \in Procs : ppc[p] = "idle"
    /\ CountOf(cache, hourKey(RaceFingerprint)) = MAX_REQUESTS_PER_HOUR
    /\ CountOf(cache, dayKey(RaceFingerprint)) = MAX_REQUESTS_PER_DAY
    /\ windowAllowed[RaceFingerprint] = MAX_REQUESTS_PER_HOUR + 2

\* C14: the counters are updated by an atomic increment: when no execution
\* is under way, the hourly and the daily entry of a fingerprint count
\* exactly the requests allowed by counting in the window and in the day,
\* also when the executions interleaved.
C14_NoLostUpdate ==
    (\A p \in Procs : ppc[p] = "idle") =>
        \A fp \in Fingerprints :
            /\ CountOf(cache, hourKey(fp)) = windowAllowed[fp]
            /\ CountOf(cache, dayKey(fp)) = dayAllowed[fp]

\* The fetches of the call in progress, as indices of log.
CallFetches == {i \in 1..Len(log) : log[i].url = apiUrl}

\* C15: in callGeminiWithRetry a response whose status is neither 200, 429
\* nor 503 ends the call at once with the 'API error' error, whatever
\* maxRetries and the body are: it is the last fetch of the call and no
\* sleep follows it.
C15_OtherStatusNotRetried ==
    (cpc # "idle" /\ dpc = "idle") =>
        \A i \in 1..Len(log) :
            log[i].status \notin {0, 200, 429, 503} =>
                /\ i = Len(log)
                /\ cpc = "threw"
                /\ cgResult.error.kind = "API error"
                /\ gap = <<>>

\* The error caught is a timeout for the catch block (line 439) and not a
\* 429 (line 434).
IsTimeout(err) ==
    /\ ErrorIncludes(err, "timeout") \/ ErrorIncludes(err, "Timeout")
    /\ ~ErrorIncludes(err, "429")
    /\ ~ErrorIncludes(err, "Rate limit")

\* The text of lines 280-283 in the language of the request.
TimeoutText(lang) ==
    [text |-> "request took too long", locale |-> IF lang = "en" THEN "en" ELSE "ru",
     max |-> 0]

JustParsed == post # NoPost
FailedWith(message) == pc = "done" /\ response = [success |-> FALSE, error |-> message]

\* C17: doPost reads the request from the form fields when a form question
\* is there, whatever the body holds; with no form question it reads the
\* JSON body; with no form question and no body it returns the 'No data
\* received' failure.
C17_FormFirst ==
    JustParsed =>
        /\ post.question # "" =>
                /\ userQuestion = post.question
                /\ language = Or(post.language, "en")
                /\ history = FormHistory(post.history)
                /\ response.error \notin {InvalidJsonMessage, NoDataMessage}
                /\ IF QuestionMissing(post.question)
                      THEN FailedWith(QuestionRequiredMessage)
                      ELSE pc = "keys" /\ response = NoResponse
        /\ (post.question = "" /\ post.body.kind = "json") =>
                /\ userQuestion = post.body.question
                /\ language = Or(post.body.language, "en")
                /\ history = post.body.history
                /\ IF QuestionMissing(post.body.question)
                      THEN FailedWith(QuestionRequiredMessage)
                      ELSE pc = "keys" /\ response = NoResponse
        /\ (post.question = "" /\ post.body.kind \in {"form", "broken"}) =>
                FailedWith(InvalidJsonMessage)
        /\ (post.question = "" /\ post.body.kind = "none") =>
                FailedWith(NoDataMessage)

\* A form question together with a JSON body that holds another question
\* and another language: the form fields are used.
C17_Witness ==
    /\ pc = "keys"
    /\ post.question = "hi"
    /\ post.language = ""
    /\ post.body.kind = "json"
    /\ post.body.question = "hello"
    /\ post.body.language = "ru"
    /\ userQuestion = "hi"
    /\ language = "en"

\* C18: for a request that passed the rate limiter and carries data, form
\* encoded or JSON, a question that is absent, empty or only whitespace
\* makes doPost return the 'Question is required and cannot be empty'
\* failure.
C18_EmptyQuestionRejected ==
    (/\ JustParsed
     /\ \/ post.body.kind = "form" /\ QuestionMissing(post.question)
        \/ /\ post.body.kind = "json"
           /\ post.question = ""
           /\ QuestionMissing(post.body.question)) =>
        FailedWith(QuestionRequiredMessage)

\* C19: a form request with a question and a history field that is not
\* valid JSON is parsed with an empty history: no failure is returned, the
\* prompt built from it has no 'Previous conversation' section and doPost
\* goes on to the keys and the dispatch.
C19_MalformedHistoryDropped ==
    /\ (/\ JustParsed
        /\ ~QuestionMissing(post.question)
        /\ post.history # ""
        /\ ~JsonParseHistory(post.history).ok) =>
            /\ pc = "keys"
            /\ response = NoResponse
            /\ history = <<>>
            /\ Prompt(history, userQuestion, language).context = <<>>
    /\ pc = "dispatch" =>
            /\ prompt.context = Context(history)
            /\ prompt.question = userQuestion
            /\ history = <<>> => prompt.context = <<>>

\* A form request with the question 'hi' and the history '[{'.
C19_Witness ==
    /\ pc = "keys"
    /\ post.question = "hi"
    /\ post.history = "[{"
    /\ post.body.kind = "form"
    /\ history = <<>>

\* The texts of the rate-limit denials and of the parsing errors.
TerminalTexts ==
    {"hourly", "daily", "No data received", "Invalid JSON",
     "Question is required and cannot be empty"}

\* C20: once doPost holds the failure response of a rate-limit denial or of
\* a parsing error it has returned: no UrlFetchApp.fetch was made for the
\* request, none is under way and nothing is slept on.
C20_NoCallAfterFailure ==
    (~response.success /\ response.error.text \in TerminalTexts) =>
        /\ pc = "done"
        /\ log = <<>>
        /\ gap = <<>>
        /\ dpc = "idle"
        /\ cpc = "idle"
        /\ prompt = NoPrompt

\* A request denied by the hourly limit.
C20_Witness ==
    /\ pc = "done"
    /\ response = [success |-> FALSE, error |-> HourlyMessage("ru")]
    /\ CountOf(cache, hourKey(HeavyFingerprint)) = MAX_REQUESTS_PER_HOUR
    /\ log = <<>>

\* doPost has returned the reply of the dispatch.
Replied == dpc = "done"
\* Line 291: 'Sorry, I encountered an error. Please try again later.'
GenericMessage(lang) == [text |-> "encountered an error", locale |-> LocaleOf(lang), max |-> 0]

\* C21: when every attempt of the dispatch returned status 500, none of the
\* errors holding '429', '503' or 'timeout', the error of the reply is the
\* generic 'Sorry, I encountered an error' message in the request's language.
C21_GenericMessage ==
    (/\ Replied
     /\ ~success
     /\ ~hit429
     /\ log # <<>>
     /\ \A i \in DOMAIN log : log[i].status = 500
     /\ lastError = ApiError(500, {})) =>
        reply = [success |-> FALSE, answer |-> NoUrl, error |-> GenericMessage(language)]

\* What an error text carries after its fixed words: parseError.toString()
\* (line 90), JSON.stringify(e.postData) (line 99), the first 200
\* characters of the provider's response (line 259); the other texts are
\* fixed.
Appended(message) ==
    CASE message.text = "Invalid JSON" -> {"exception string"}
      [] message.text = "No data received" -> {"request body"}
      [] message.text = "No response from Gemini API" -> {"provider response body"}
      [] OTHER -> {}

\* C22: no failure that doPost returns, at an early return or after the
\* dispatch, carries an exception string or a part of a response body in its
\* error text.
C22_NoDiagnosticDetail ==
    /\ (pc = "done" /\ ~response.success) => Appended(response.error) = {}
    /\ (Replied /\ ~reply.success) => Appended(reply.error) = {}

\* C23: the message of a denial by checkRateLimit is in the language the
\* request asks for, English for 'en' or none and Russian for 'ru', be the
\* language a form field or a member of the JSON body.
C23_DenialLanguage ==
    (pc = "done" /\ ~rl.allowed /\ post # NoPost) =>
        /\ response.error.text \in {"hourly", "daily"}
        /\ response.error.locale = LocaleOf(RequestedLanguage(post))

\* An error text that is there: not undefined and not ''.
Defined(message) == message.text \notin {"none", ""}

\* C24: doPost ends with one response object, whatever the cache and the
\* generation API do.  An early return (denial, parsing failure, missing
\* keys) holds success = false with an error text, and no dispatch was
\* started; the reply of the dispatch holds either success = true with an
\* answer and no error, or success = false with an error text and no answer,
\* and no early response was made.  An exception of the cache is caught by
\* checkRateLimit and the request goes on; an exception of the fetches or
\* of the reading of the response body is caught and ends in a failure reply.
C24_OneResponse ==
    /\ pc = "done" =>
            /\ ~response.success
            /\ Defined(response.error)
            /\ dpc = "idle"
            /\ reply = NoReply
    /\ Replied =>
            /\ pc = "dispatch"
            /\ response = NoResponse
            /\ IF reply.success
                  THEN /\ reply.answer # NoUrl
                       /\ reply.error = NoMessage
                  ELSE /\ reply.answer = NoUrl
                       /\ Defined(reply.error)
            /\ apiResponse.throws # "none" => ~reply.success
    /\ thrown # "none" => rl.allowed /\ pc \in {"parse", "keys", "dispatch", "done"}
    /\ thrown # "none" => response.error.text \notin {"hourly", "daily"}

\* A request during which cache.get threw and whose 200 response was not
\* JSON: the generic failure is the reply.
C24_Witness ==
    /\ Replied
    /\ thrown = "getHour"
    /\ apiResponse.throws = "SyntaxError"
    /\ reply = [success |-> FALSE, answer |-> NoUrl, error |-> GenericMessage(language)]

\* The texts of the errors of the dispatch (lines 268-292).
DispatchTexts ==
    {"API rate limit exceeded", "AI service busy", "request took too long",
     "API configuration error", "encountered an error"}

\* C25: a 200 response without candidates[0].content ends the dispatch like
\* any 200 response (no further key or model is tried: its fetch is the
\* last one) and doPost replies success = false with the 'No response from
\* Gemini API' error, which is none of the errors of the dispatch.
C25_NoCandidate ==
    /\ success =>
            /\ log # <<>>
            /\ log[Len(log)].status = 200
            /\ log[Len(log)].url = apiResponse.from
            /\ \A i \in 1..(Len(log) - 1) : log[i].status # 200
            /\ dpc # "call"
            /\ cpc = "idle"
    /\ (Replied /\ success /\ ~apiResponse.candidates /\ apiResponse.throws = "none") =>
            /\ reply = [success |-> FALSE, answer |-> NoUrl, error |-> NoCandidateMessage]
            /\ NoCandidateMessage.text \notin DispatchTexts

\* Three keys; the first fetch returns 200 without candidates and no other
\* fetch is made.
C25_Witness ==
    /\ Replied
    /\ nKeys = 3
    /\ Len(log) = 1
    /\ apiResponse.status = 200
    /\ ~apiResponse.candidates
    /\ apiResponse.throws = "none"
    /\ apiResponse.from = <<PRIMARY_MODEL, 1>>
    /\ reply.error = NoCandidateMessage
    /\ ~reply.success

\* The i-th pair of the model-major order over n keys.
PairAt(i, n) ==
    <<IF i <= n THEN PRIMARY_MODEL ELSE FALLBACK_MODEL, ((i - 1) % n) + 1>>

\* The position of a name in API_KEYS.
Position(name) == CHOOSE i \in 1..Len(API_KEYS) : API_KEYS[i] = name

\* C26: the calls of callGeminiWithRetry within one doPost follow the
\* model-major order, every available key in the configured order for
\* PRIMARY_MODEL and then for FALLBACK_MODEL: the i-th call goes to the i-th
\* pair, so no pair is called twice, and every call before the last one
\* failed.  The available keys are the configured ones that have a value, in
\* the configured order.
C26_ModelMajorOrder ==
    /\ dpc # "idle" =>
            /\ Len(log) <= Len(models) * nKeys
            /\ \A i \in 1..Len(log) : log[i].url = PairAt(i, nKeys) /\ log[i].retry = 0
            /\ \A i \in 1..(Len(log) - 1) : log[i].status # 200
            /\ (dpc = "call" /\ cpc = "loop") => apiUrl = PairAt(Len(log) + 1, nKeys)
    /\ \A present \in SUBSET {API_KEYS[i] : i \in 1..Len(API_KEYS)} :
            LET keys == availableApiKeys(present)
            IN  /\ {keys[i] : i \in 1..Len(keys)} = present
                /\ \A i, j \in 1..Len(keys) :
                        i < j => Position(keys[i]) < Position(keys[j])

\* Three keys: five calls fail and the sixth, the fallback model with the
\* third key, returns 200.
C26_Witness ==
    /\ Replied
    /\ nKeys = 3
    /\ Len(log) = 6
    /\ log[3].url = <<PRIMARY_MODEL, 3>>
    /\ log[4].url = <<FALLBACK_MODEL, 1>>
    /\ log[6].url = <<FALLBACK_MODEL, 3>>
    /\ log[6].status = 200
    /\ reply.success

\* C27: the dispatch of doPost makes at most |models| x |available keys| x
\* maxRetries fetches, 6 with three keys and maxRetries = 1, and a call of
\* callGeminiWithRetry at most maxRetries; the dispatch ends in a reply and
\* the call returns or throws, whatever the fetches produce.
C27_Terminates ==
    /\ [](dpc # "idle" =>
            /\ Len(log) <= Len(models) * nKeys * RETRIES_PER_KEY
            /\ Len(log) <= 6)
    /\ [](dpc = "idle" => Len(log) <= maxRetries)
    /\ (dpc = "outer" ~> Replied)
    /\ (cpc = "loop" ~> cpc \in {"returned", "threw"})

\* Three keys and six fetches, none returning 200: the failure is replied.
C27_Witness ==
    /\ Replied
    /\ nKeys = 3
    /\ Len(log) = 6
    /\ \A i \in 1..6 : log[i].status # 200
    /\ ~reply.success

\* C28: doPost replies success = true only after a fetch of the same
\* invocation returned 200 with a body that holds the text of
\* candidates[0].content.parts[0], and the answer is the text of that
\* response; an invocation none of whose fetches returned 200, and every
\* early return, hold success = false.
C28_SuccessOnlyAfter200 ==
    /\ (Replied /\ reply.success) =>
            /\ pc = "dispatch"
            /\ \E i \in 1..Len(log) :
                    /\ log[i].status = 200
                    /\ reply.answer = log[i].url
                    /\ apiResponse = [status |-> 200, marks |-> {}, candidates |-> TRUE,
                                       throws |-> "none", from |-> log[i].url]
    /\ (Replied /\ \A i \in 1..Len(log) : log[i].status # 200) => ~reply.success
    /\ dpc \in {"idle", "outer", "inner", "call", "after"} => ~reply.success
    /\ pc = "done" => ~response.success

\* The primary model answers 503, the fallback model 200 with an answer.
C28_Witness ==
    /\ Replied
    /\ pc = "dispatch"
    /\ Len(log) = 2
    /\ log[1].status = 503
    /\ log[2].status = 200
    /\ reply = [success |-> TRUE, answer |-> <<FALLBACK_MODEL, 1>>, error |-> NoMessage]

\* C29: the step of a request that checkRateLimit denies makes no
\* cache.put: every entry of the cache, the counters of the request's
\* fingerprint among them, keeps its count, its time to live and its age.
C29_DenialLeavesCounters ==
    [][(pc = "idle" /\ pc' = "done" /\ ~rl'.allowed) =>
            /\ cache' = cache
            /\ ttl' = ttl
            /\ age' = age
            /\ windowAllowed' = windowAllowed
            /\ dayAllowed' = dayAllowed]_vars

\* A request denied by the hourly limit half an hour after the last counted
\* one: the hourly entry still has half an hour to live.
C29_Witness ==
    /\ pc = "done"
    /\ ~rl.allowed
    /\ rl.message.text = "hourly"
    /\ CountOf(cache, hourKey(HeavyFingerprint)) = MAX_REQUESTS_PER_HOUR
    /\ ttl[hourKey(HeavyFingerprint)] = HOUR_TTL - 1800
    /\ age[hourKey(HeavyFingerprint)] = 1800

\* The request in hand was let through by one of the two bypass rules.
BypassedResult(r) == r.whitelisted \/ r.devMode

\* C30: a request that the whitelist or the localhost rule lets through is
\* decided before the counting: whichever operation of the cache would
\* throw, none is reached (nothing is thrown, no fingerprint is computed, no
\* count is read) and no entry of the cache changes its count or its time
\* to live.  The whitelist is tested first: a whitelisted address is let
\* through as whitelisted, whatever its referrer, which is not even read.
C30_BypassBeforeCounting ==
    /\ [][(pc = "idle" /\ pc' # "idle" /\ BypassedResult(rl')) =>
                /\ cache' = cache
                /\ ttl' = ttl
                /\ windowAllowed' = windowAllowed
                /\ dayAllowed' = dayAllowed
                /\ thrown' = "none"
                /\ loc'.fp = <<>>
                /\ loc'.hourCount = 0 /\ loc'.dayCount = 0
                /\ pc' = "parse"]_vars
    /\ [](pc # "idle" =>
            /\ IsWhitelisted(req.userIP) =>
                    rl.whitelisted /\ ~rl.devMode /\ loc.referrer = ""
            /\ (~IsWhitelisted(req.userIP) /\ IsLocalhost(req.referrer)) =>
                    rl.devMode /\ ~rl.whitelisted
            /\ BypassedResult(rl) =>
                    IsWhitelisted(req.userIP) \/ IsLocalhost(req.referrer))

\* A request from the whitelisted address with a localhost referrer, while
\* the cache holds counts.
C30_Witness ==
    /\ pc = "parse"
    /\ IsWhitelisted(req.userIP)
    /\ IsLocalhost(req.referrer)
    /\ rl.whitelisted
    /\ ~rl.devMode
    /\ \E k \in CacheKeys : cache[k] # NULL

\* The request in hand passed the limits and nothing was thrown.
PassedLimits(r, t) == r.allowed /\ ~BypassedResult(r) /\ t = "none"

\* C31: the request is counted by the rate limit check, the first thing
\* doPost does: the step that lets a request through the limits raises the
\* hourly and the daily count of its fingerprint by one, and no later step
\* of doPost (the parsing and its failures, the missing keys, the dispatch
\* and its failure, the return) touches the cache, so the count stays
\* raised however the request ends.
C31_CountedBeforeValidation ==
    /\ [][(pc = "idle" /\ pc' = "parse" /\ PassedLimits(rl', thrown')) =>
                /\ CountOf(cache', hourKey(loc'.fp)) = CountOf(cache, hourKey(loc'.fp)) + 1
                /\ CountOf(cache', dayKey(loc'.fp)) = CountOf(cache, dayKey(loc'.fp)) + 1
                /\ post' = NoPost
                /\ dpc' = "idle"]_vars
    /\ [][pc # "idle" => cache' = cache /\ ttl' = ttl]_vars
    /\ [](\A fp \in Fingerprints :
                /\ CountOf(cache, hourKey(fp)) = windowAllowed[fp]
                /\ CountOf(cache, dayKey(fp)) = dayAllowed[fp])

\* A counted request, the twentieth of its hour, with an empty question.
C31_Witness ==
    /\ pc = "done"
    /\ PassedLimits(rl, thrown)
    /\ response = [success |-> FALSE, error |-> QuestionRequiredMessage]
    /\ CountOf(cache, hourKey(HeavyFingerprint)) = MAX_REQUESTS_PER_HOUR
    /\ CountOf(cache, dayKey(HeavyFingerprint)) = MAX_REQUESTS_PER_HOUR

C33_SingleKeyNoRetryOn429 ==
    (cpc # "idle" /\ dpc = "idle") =>
        \A i \in 1..Len(log) :
            log[i].status = 429 =>
                /\ i = Len(log)
                /\ cpc = "threw"
                /\ gap = <<>>

\* C34: at most one request of the chat client is in flight, and only one
\* is in the promise chain at all; while a request is in flight the send
\* button is disabled; no request is sent while the button is disabled; the
\* step that sends a request leaves the button disabled; and the button is
\* enabled again only by the data handler or the catch handler of the
\* request that is in the chain.
C34_OneInFlight ==
    /\ [](Cardinality(InFlight) <= 1 /\ Cardinality(chain) <= 1)
    /\ [](InFlight # {} => chatbotSend.disabled)
    /\ [][chatbotSend.disabled => sent' = sent /\ InFlight' \subseteq InFlight \cup
                {[r EXCEPT !.stage = "reading"] : r \in InFlight}]_vars
    /\ [][sent' # sent => chatbotSend'.disabled /\ Cardinality(InFlight') = 1]_vars
    /\ [][(chatbotSend.disabled /\ ~chatbotSend'.disabled) =>
                \E r \in chain : r.stage \in {"data", "rejected"} /\ r \notin chain']_vars

\* The second request is in flight, after Enter was of no effect while the
\* first one was.
C34_Witness ==
    /\ sent = 2
    /\ chatbotSend.disabled
    /\ \E r \in InFlight : r.n = 2 /\ r.stage = "reading"

\* C35: once the fetch of a request has settled into the chain (a text to
\* parse, parsed data, or a rejection), the handlers run to the end: the
\* send button is enabled again and the loading indicator hidden; and the
\* step that ends the handling of a request leaves the client unlocked.
C35_UnlocksAfterSettle ==
    /\ MicrotaskPending ~>
            (chain = {} /\ ~chatbotSend.disabled /\ chatbotLoading.display = "none")
    /\ [][(chain # {} /\ chain' = {}) =>
                ~chatbotSend'.disabled /\ chatbotLoading'.display = "none"]_vars

\* A response whose text could not be parsed has been handled by the catch
\* handler.
C35_Witness ==
    /\ sent = 1
    /\ chain = {}
    /\ lastChild = [type |-> "ai", isError |-> TRUE, text |-> <<"connect", currentLang>>]
    /\ ~chatbotSend.disabled
    /\ chatbotLoading.display = "none"

\* h2 is the end of h, MAX_HISTORY messages long at most.
IsLastOf(h2, h) ==
    /\ Len(h2) = Min(Len(h), MAX_HISTORY)
    /\ \A i \in 1..Len(h2) : h2[i] = h[Len(h) - Len(h2) + i]

\* C36: conversationHistory never holds more than 20 messages; a step
\* changes it only when it handles a success response, and then to the last
\* 20 at most of the history followed by the user message and the answer of
\* that request; with 20 messages it holds ten whole exchanges.
C36_HistoryBound ==
    /\ [](Len(conversationHistory) <= MAX_HISTORY)
    /\ [][conversationHistory' # conversationHistory =>
                \E r \in chain :
                    /\ r.stage = "data" /\ r.data.object /\ r.data.success
                    /\ r \notin chain'
                    /\ IsLastOf(conversationHistory',
                                conversationHistory \o
                                    <<[role |-> "user", content |-> r.message, n |-> r.n],
                                      [role |-> "assistant", content |-> r.data.answer,
                                       n |-> r.n]>>)]_vars
    /\ [](Len(conversationHistory) = MAX_HISTORY =>
                \A i \in 1..(MAX_HISTORY \div 2) :
                    /\ conversationHistory[2 * i - 1].role = "user"
                    /\ conversationHistory[2 * i].role = "assistant"
                    /\ conversationHistory[2 * i].n = conversationHistory[2 * i - 1].n)

\* Eleven exchanges succeeded: the welcome message and the first exchange
\* are gone.
C36_Witness ==
    /\ chain = {}
    /\ Len(conversationHistory) = MAX_HISTORY
    /\ conversationHistory[1] = [role |-> "user", content |-> "hello", n |-> 2]
    /\ conversationHistory[MAX_HISTORY].n = 11
====
